---------------------------- MODULE Spec2Model ----------------------------
(***************************************************************************)
(* Routing and resilience pipeline of the inference gateway:               *)
(*   app/router/circuit_breaker.py  CircuitBreaker                         *)
(*   app/router/retry.py            classify_http_exception, RetryHandler  *)
(*   app/router/resilience.py       ResilienceHandler                      *)
(* Every coroutine runs on one asyncio event loop: the code between two    *)
(* awaits that really suspend is one atomic action.  The breaker's lock is *)
(* never held across a suspending await, so each `async with self._lock`   *)
(* block is atomic and the wrapped function runs between two such blocks.  *)
(***************************************************************************)
EXTENDS Integers, Sequences, FiniteSets, TLC

VARIABLES
    cb,          \* the CircuitBreaker object of one provider, or their registry
    now,         \* time.time(), in ticks
    calls,       \* per caller: where its CircuitBreaker.call / execute_* is
    nCalls,      \* calls started so far
    invocations, \* invocations of the wrapped function so far
    run,         \* failures recorded since the last recorded success
    ev,          \* the last step taken: what it was and who took it
    rh,          \* the RetryHandler of the provider: config and retry_strategy
    exc,         \* an exception handed to classify_http_exception
    verdict,     \* what classify_http_exception answered for exc
    adapter,     \* the provider adapter: its configuration
    providers,   \* the ProviderRegistry and the adapters it created
    router,      \* the RequestRouter: its weight table
    health,      \* the provider health cache of app/api/health.py
    config       \* the GatewayConfig the configuration manager holds

bvars == <<cb, now, calls, nCalls, invocations, run, ev>>
rvars == <<rh>>
cvars == <<exc, verdict>>
gvars == <<adapter, providers, router, health, config>>
vars == <<cb, now, calls, nCalls, invocations, run, ev, rh, exc, verdict,
          adapter, providers, router, health, config>>

---------------------------------------------------------------------------
(* Bounds of the model *)

NCallers == 2
MaxCalls == 4
MaxTime == 2
MaxThreshold == 2
MaxRecovery == 2
MaxAttempts == 2
MaxStatus == 600
MaxRetries == 2
NProviders == 2
MaxWeight == 1
MaxAdapters == 3
MaxCloses == 2
MaxInterval == 2
MaxHealthTime == 2
MaxBreakers == 3
MaxWait == 3
MaxBase == 2
MaxBackoffAttempts == 3

Callers == 1..NCallers

\* the value of a component that a specification leaves out
Unused == [unused |-> TRUE]

GatewayUnused ==
    /\ adapter = Unused
    /\ providers = Unused
    /\ router = Unused
    /\ health = Unused
    /\ config = Unused

---------------------------------------------------------------------------
(* CircuitBreaker *)

\* Optional[float] None of last_failure_time
None == -1

CircuitBreakerState == {"CLOSED", "OPEN", "HALF_OPEN"}

\* CircuitBreaker.__init__
NewCircuitBreaker(k, rt) ==
    [state |-> "CLOSED",
     failure_count |-> 0,
     last_failure_time |-> None,
     half_open_in_flight |-> FALSE,
     failure_threshold |-> k,
     recovery_timeout |-> rt]

ShouldAttemptResetStrict(b, t) ==
    IF b.last_failure_time = None
    THEN TRUE
    ELSE t - b.last_failure_time > b.recovery_timeout

\* CircuitBreaker._should_attempt_reset
should_attempt_reset(b, t) ==
    IF b.last_failure_time = None
    THEN TRUE
    ELSE t - b.last_failure_time >= b.recovery_timeout

AdmitNoProbeGuard(b, t) ==
    IF b.state = "OPEN"
    THEN IF should_attempt_reset(b, t)
         THEN [cb |-> [b EXCEPT !.state = "HALF_OPEN",
                                !.half_open_in_flight = TRUE],
               admitted |-> TRUE, probe |-> TRUE]
         ELSE [cb |-> b, admitted |-> FALSE, probe |-> FALSE]
    ELSE [cb |-> b, admitted |-> TRUE, probe |-> FALSE]

AdmitRejectExtends(b, t) ==
    IF b.state = "OPEN"
    THEN IF should_attempt_reset(b, t)
         THEN [cb |-> [b EXCEPT !.state = "HALF_OPEN",
                                !.half_open_in_flight = TRUE],
               admitted |-> TRUE, probe |-> TRUE]
         ELSE [cb |-> [b EXCEPT !.last_failure_time = t],
               admitted |-> FALSE, probe |-> FALSE]
    ELSE IF b.state = "HALF_OPEN" /\ b.half_open_in_flight
         THEN [cb |-> b, admitted |-> FALSE, probe |-> FALSE]
         ELSE [cb |-> b, admitted |-> TRUE, probe |-> FALSE]

AdmitProbeNoFlag(b, t) ==
    IF b.state = "OPEN"
    THEN IF should_attempt_reset(b, t)
         THEN [cb |-> [b EXCEPT !.state = "HALF_OPEN"],
               admitted |-> TRUE, probe |-> TRUE]
         ELSE [cb |-> b, admitted |-> FALSE, probe |-> FALSE]
    ELSE IF b.state = "HALF_OPEN" /\ b.half_open_in_flight
         THEN [cb |-> b, admitted |-> FALSE, probe |-> FALSE]
         ELSE [cb |-> b, admitted |-> TRUE, probe |-> FALSE]

\* CircuitBreaker.call, the first `async with self._lock` block: the breaker
\* after it, whether the call goes on to the wrapped function (or raises
\* CircuitBreakerOpenException), and whether it made the OPEN -> HALF_OPEN move
Admit(b, t) ==
    IF b.state = "OPEN"
    THEN IF should_attempt_reset(b, t)
         THEN [cb |-> [b EXCEPT !.state = "HALF_OPEN",
                                !.half_open_in_flight = TRUE],
               admitted |-> TRUE, probe |-> TRUE]
         ELSE [cb |-> b, admitted |-> FALSE, probe |-> FALSE]
    ELSE IF b.state = "HALF_OPEN" /\ b.half_open_in_flight
         THEN [cb |-> b, admitted |-> FALSE, probe |-> FALSE]
         ELSE [cb |-> b, admitted |-> TRUE, probe |-> FALSE]

OnSuccessClearsTime(b) ==
    IF b.state = "HALF_OPEN"
    THEN [b EXCEPT !.state = "CLOSED",
                   !.failure_count = 0,
                   !.last_failure_time = None,
                   !.half_open_in_flight = FALSE]
    ELSE IF b.state = "CLOSED"
         THEN [b EXCEPT !.failure_count = 0]
         ELSE [b EXCEPT !.last_failure_time = None]

OnSuccessKeepsCount(b) ==
    IF b.state = "HALF_OPEN"
    THEN [b EXCEPT !.state = "CLOSED",
                   !.failure_count = 0,
                   !.last_failure_time = None,
                   !.half_open_in_flight = FALSE]
    ELSE b

OnSuccessKeepsFlag(b) ==
    IF b.state = "HALF_OPEN"
    THEN [b EXCEPT !.state = "CLOSED",
                   !.failure_count = 0,
                   !.last_failure_time = None]
    ELSE IF b.state = "CLOSED"
         THEN [b EXCEPT !.failure_count = 0]
         ELSE b

\* CircuitBreaker._on_success
on_success(b) ==
    IF b.state = "HALF_OPEN"
    THEN [b EXCEPT !.state = "CLOSED",
                   !.failure_count = 0,
                   !.last_failure_time = None,
                   !.half_open_in_flight = FALSE]
    ELSE IF b.state = "CLOSED"
         THEN [b EXCEPT !.failure_count = 0]
         ELSE b

OnFailureKeepsFlag(b, t) ==
    LET c1 == [b EXCEPT !.failure_count = b.failure_count + 1,
                        !.last_failure_time = t]
    IN  IF c1.state \in {"CLOSED", "HALF_OPEN"}
           /\ c1.failure_count >= c1.failure_threshold
        THEN [c1 EXCEPT !.state = "OPEN"]
        ELSE c1

OnFailureStrict(b, t) ==
    LET c1 == [b EXCEPT !.failure_count = b.failure_count + 1,
                        !.last_failure_time = t]
        c2 == IF b.state = "HALF_OPEN"
              THEN [c1 EXCEPT !.half_open_in_flight = FALSE]
              ELSE c1
    IN  IF c2.state \in {"CLOSED", "HALF_OPEN"}
           /\ c2.failure_count > c2.failure_threshold
        THEN [c2 EXCEPT !.state = "OPEN"]
        ELSE c2

OnFailureOpensFromClosedOnly(b, t) ==
    LET c1 == [b EXCEPT !.failure_count = b.failure_count + 1,
                        !.last_failure_time = t]
        c2 == IF b.state = "HALF_OPEN"
              THEN [c1 EXCEPT !.half_open_in_flight = FALSE]
              ELSE c1
    IN  IF c2.state = "CLOSED"
           /\ c2.failure_count >= c2.failure_threshold
        THEN [c2 EXCEPT !.state = "OPEN"]
        ELSE c2

\* CircuitBreaker._on_failure
on_failure(b, t) ==
    LET c1 == [b EXCEPT !.failure_count = b.failure_count + 1,
                        !.last_failure_time = t]
        c2 == IF b.state = "HALF_OPEN"
              THEN [c1 EXCEPT !.half_open_in_flight = FALSE]
              ELSE c1
    IN  IF c2.state \in {"CLOSED", "HALF_OPEN"}
           /\ c2.failure_count >= c2.failure_threshold
        THEN [c2 EXCEPT !.state = "OPEN"]
        ELSE c2

---------------------------------------------------------------------------
(* Outcomes of a wrapped function and exceptions, as (type, status_code) *)

Exc(t, sc) == [type |-> t, status_code |-> sc]

\* no outcome yet: RetryCallState.outcome is None
NoOutcome == Exc("none", 0)

\* the function returned a value
Returned == Exc("return", 0)

HTTP(sc) == Exc("HTTPException", sc)

\* asyncio.CancelledError, a BaseException that is no Exception
Cancelled == Exc("CancelledError", 0)

\* the tuple retryable_exceptions of classify_http_exception
retryable_exceptions ==
    {"ConnectionError", "TimeoutError", "asyncio.TimeoutError",
     "RetryableException"}

\* the tuple non_retryable_exceptions of classify_http_exception
non_retryable_exceptions == {"ValueError", "TypeError", "NonRetryableException"}

ClassifyRetriesEvery4xx(e) ==
    IF e.type = "HTTPException" /\ e.status_code >= 400 /\ e.status_code < 600
    THEN TRUE
    ELSE IF e.type \in non_retryable_exceptions
         THEN FALSE
         ELSE e.type \in retryable_exceptions

\* classify_http_exception
classify_http_exception(e) ==
    IF e.type = "HTTPException" /\ e.status_code \in {429, 408}
    THEN TRUE
    ELSE IF e.type = "HTTPException"
            /\ 400 <= e.status_code /\ e.status_code < 500
    THEN FALSE
    ELSE IF e.type = "HTTPException"
            /\ 500 <= e.status_code /\ e.status_code < 600
    THEN TRUE
    ELSE IF e.type \in non_retryable_exceptions
    THEN FALSE
    ELSE IF e.type \in retryable_exceptions
    THEN TRUE
    ELSE FALSE

---------------------------------------------------------------------------
(* Callers of CircuitBreaker.call with an arbitrary wrapped function *)

IdleCall == [pc |-> "idle", probe |-> FALSE, result |-> "none"]

\* the variables of the breaker that execute_with_retry does not touch
breakerOnly == <<cb, now, invocations, run>>

\* no RetryHandler is constructed where only the breaker is exercised
NoHandler == [max_attempts |-> 0, cur |-> 0, states |-> <<>>]

Event(type, c) == [type |-> type, caller |-> c]

InitBreaker ==
    /\ \E k \in 1..MaxThreshold, rt \in 1..MaxRecovery :
           cb = NewCircuitBreaker(k, rt)
    /\ now = 0
    /\ calls = [c \in Callers |-> IdleCall]
    /\ nCalls = 0
    /\ invocations = 0
    /\ run = 0
    /\ ev = Event("init", 0)
    /\ rh = NoHandler
    /\ exc = NoOutcome
    /\ verdict = "unset"
    /\ GatewayUnused

\* CircuitBreaker.call up to the wrapped function: rejected with
\* CircuitBreakerOpenException, or admitted and the function invoked
CallEnter(c) ==
    /\ calls[c].pc = "idle"
    /\ nCalls < MaxCalls
    /\ LET a == Admit(cb, now)
       IN  /\ cb' = a.cb
           /\ IF a.admitted
              THEN /\ calls' = [calls EXCEPT ![c] = [pc |-> "running",
                                                      probe |-> a.probe,
                                                      result |-> "none"]]
                   /\ invocations' = invocations + 1
                   /\ ev' = Event("admit", c)
              ELSE /\ calls' = [calls EXCEPT ![c] = [pc |-> "idle",
                                                      probe |-> FALSE,
                                                      result |-> "rejected"]]
                   /\ invocations' = invocations
                   /\ ev' = Event("reject", c)
    /\ nCalls' = nCalls + 1
    /\ UNCHANGED <<now, run, rvars, cvars, gvars>>

\* the wrapped function returned: _on_success under the lock, result returned
CallSucceed(c) ==
    /\ calls[c].pc = "running"
    /\ cb' = on_success(cb)
    /\ calls' = [calls EXCEPT ![c].pc = "idle", ![c].result = "ok"]
    /\ run' = 0
    /\ ev' = Event("success", c)
    /\ UNCHANGED <<now, nCalls, invocations, rvars, cvars, gvars>>

\* the wrapped function raised an Exception: _on_failure under the lock, re-raised
CallFail(c) ==
    /\ calls[c].pc = "running"
    /\ cb' = on_failure(cb, now)
    /\ calls' = [calls EXCEPT ![c].pc = "idle", ![c].result = "error"]
    /\ run' = run + 1
    /\ ev' = Event("failure", c)
    /\ UNCHANGED <<now, nCalls, invocations, rvars, cvars, gvars>>

CallCancelCountsFailure(c) ==
    /\ calls[c].pc = "running"
    /\ cb' = on_failure(cb, now)
    /\ calls' = [calls EXCEPT ![c].pc = "idle", ![c].result = "cancelled"]
    /\ ev' = Event("cancel", c)
    /\ UNCHANGED <<now, nCalls, invocations, run, rvars, cvars, gvars>>

\* the call was cancelled while the wrapped function ran: CancelledError is a
\* BaseException, `except Exception` does not catch it and no handler runs
CallCancel(c) ==
    /\ calls[c].pc = "running"
    /\ calls' = [calls EXCEPT ![c].pc = "idle", ![c].result = "cancelled"]
    /\ ev' = Event("cancel", c)
    /\ UNCHANGED <<cb, now, nCalls, invocations, run, rvars, cvars, gvars>>

Tick ==
    /\ now < MaxTime
    /\ now' = now + 1
    /\ ev' = Event("tick", 0)
    /\ UNCHANGED <<cb, calls, nCalls, invocations, run, rvars, cvars, gvars>>

NextBreaker ==
    \/ \E c \in Callers : CallEnter(c)
    \/ \E c \in Callers : CallSucceed(c)
    \/ \E c \in Callers : CallFail(c)
    \/ \E c \in Callers : CallCancel(c)
    \/ Tick

SpecBreaker == InitBreaker /\ [][NextBreaker]_vars

---------------------------------------------------------------------------
(* RetryHandler: one AsyncRetrying object, self.retry_strategy, is built in  *)
(* __init__ and iterated by every execute_with_retry call.  `async for`      *)
(* calls __aiter__, which stores a new RetryCallState in the shared          *)
(* attribute _retry_state; each __anext__ reads that attribute again; the    *)
(* AttemptManager it returns keeps the state it was built with and its       *)
(* __exit__ records the attempt's outcome there, swallowing any exception.   *)

StateIds == 1..NCallers

\* RetryCallState.__init__
NewRetryState == [attempt_number |-> 1, outcome |-> NoOutcome]

\* RetryHandler.__init__
NewRetryHandler(n) ==
    [max_attempts |-> n, cur |-> 1, states |-> [i \in StateIds |-> NewRetryState]]

\* execute_with_retry fell off the end of its `async for` and returned None
ReturnedNone == Exc("return_none", 0)

ShouldRetryAnything(rs) == rs.outcome # NoOutcome /\ rs.outcome # Returned

\* RetryHandler._should_retry
should_retry(rs) ==
    IF rs.outcome = NoOutcome
    THEN FALSE
    ELSE IF rs.outcome = Returned
         THEN FALSE
         ELSE classify_http_exception(rs.outcome)

\* the NonRetryableException execute_with_retry raises from a non-retryable e
NonRetryable(e) ==
    Exc("NonRetryableException",
        IF e.type = "HTTPException"
        THEN e.status_code
        ELSE IF e.type \in {"ValueError", "TypeError"} THEN 400 ELSE 500)

\* the body of `with attempt:` for a function outcome o: what the
\* AttemptManager records in its RetryCallState
Recorded(o) ==
    IF o = Returned \/ o = Cancelled
    THEN o
    ELSE IF ~classify_http_exception(o) THEN NonRetryable(o) ELSE o

IterStopsLate(rs, max) ==
    IF rs.outcome = NoOutcome
    THEN [do |-> "attempt", exc |-> NoOutcome]
    ELSE IF ~should_retry(rs)
         THEN IF rs.outcome = Returned
              THEN [do |-> "stop", exc |-> NoOutcome]
              ELSE [do |-> "raise", exc |-> rs.outcome]
         ELSE IF rs.attempt_number > max
              THEN [do |-> "raise", exc |-> rs.outcome]
              ELSE [do |-> "sleep", exc |-> NoOutcome]

\* the retry_strategy's decision for a RetryCallState: stop_after_attempt(
\* max_attempts), retry=_should_retry, reraise=True
iter(rs, max) ==
    IF rs.outcome = NoOutcome
    THEN [do |-> "attempt", exc |-> NoOutcome]
    ELSE IF ~should_retry(rs)
         THEN IF rs.outcome = Returned
              THEN [do |-> "stop", exc |-> NoOutcome]
              ELSE [do |-> "raise", exc |-> rs.outcome]
         ELSE IF rs.attempt_number >= max
              THEN [do |-> "raise", exc |-> rs.outcome]
              ELSE [do |-> "sleep", exc |-> NoOutcome]

\* one turn of `async for attempt in self.retry_strategy`, from __anext__ to
\* the call's next suspension (the function awaited, the backoff sleep) or end
Anext(h, k) ==
    LET rs == h.states[h.cur]
        d == iter(rs, h.max_attempts)
    IN  CASE d.do = "attempt" ->
                [rh |-> h,
                 call |-> [k EXCEPT !.pc = "attempt", !.am = h.cur,
                                    !.invoked = @ + 1]]
          [] d.do = "sleep" ->
                [rh |-> [h EXCEPT !.states[h.cur] =
                            [attempt_number |-> rs.attempt_number + 1,
                             outcome |-> NoOutcome]],
                 call |-> [k EXCEPT !.pc = "sleep", !.am = 0,
                                    !.sleeps = @ + 1]]
          [] d.do = "stop" ->
                [rh |-> h,
                 call |-> [k EXCEPT !.pc = "idle", !.am = 0,
                                    !.result = ReturnedNone]]
          [] OTHER ->
                [rh |-> h,
                 call |-> [k EXCEPT !.pc = "idle", !.am = 0,
                                    !.result = d.exc]]

\* the RetryCallState objects some AttemptManager still holds
Held(cs) == {cs[c].am : c \in {d \in Callers : cs[d].pc = "attempt"}}

\* objects nobody refers to any more are forgotten
Collect(h, cs) ==
    [h EXCEPT !.states = [i \in StateIds |->
        IF i = h.cur \/ i \in Held(cs) THEN h.states[i] ELSE NewRetryState]]

BeginKeepsState(h, k, held) ==
    Anext(h, [k EXCEPT !.invoked = 0, !.sleeps = 0, !.result = NoOutcome])

\* execute_with_retry up to its first await: __aiter__ replaces the shared
\* _retry_state, __anext__ returns the first AttemptManager, the function is
\* invoked
Begin(h, k, held) ==
    LET fresh == CHOOSE i \in StateIds \ held :
                     \A j \in StateIds \ held : i <= j
        h1 == [h EXCEPT !.cur = fresh, !.states[fresh] = NewRetryState]
    IN  Anext(h1, [k EXCEPT !.invoked = 0, !.sleeps = 0,
                            !.result = NoOutcome])

\* the awaited function ended with outcome o
AttemptEnd(h, k, o) ==
    LET h1 == [h EXCEPT !.states[k.am].outcome = Recorded(o)]
    IN  IF o = Returned
        THEN [rh |-> h1,
              call |-> [k EXCEPT !.pc = "idle", !.am = 0, !.result = Returned]]
        ELSE Anext(h1, [k EXCEPT !.am = 0])

---------------------------------------------------------------------------
(* Callers of RetryHandler.execute_with_retry on one shared handler *)

\* what the wrapped operation may do in one invocation
FuncOutcomes == {Returned, Exc("ConnectionError", 0), HTTP(400), Cancelled}

IdleRetryCall ==
    [pc |-> "idle", am |-> 0, invoked |-> 0, sleeps |-> 0,
     result |-> NoOutcome, outs |-> <<>>, cancelled |-> FALSE]

InitRetry ==
    /\ \E n \in 1..MaxAttempts : rh = NewRetryHandler(n)
    /\ calls = [c \in Callers |-> IdleRetryCall]
    /\ nCalls = 0
    /\ ev = Event("init", 0)
    /\ cb = NewCircuitBreaker(1, 1)
    /\ now = 0
    /\ invocations = 0
    /\ run = 0
    /\ exc = NoOutcome
    /\ verdict = "unset"
    /\ GatewayUnused

\* a caller enters execute_with_retry
RetryCall(c) ==
    /\ calls[c].pc = "idle"
    /\ nCalls < MaxCalls
    /\ LET r == Begin(rh, [calls[c] EXCEPT !.outs = <<>>, !.cancelled = FALSE],
                      Held(calls))
           cs == [calls EXCEPT ![c] = r.call]
       IN  /\ calls' = cs
           /\ rh' = Collect(r.rh, cs)
    /\ nCalls' = nCalls + 1
    /\ ev' = Event("begin", c)
    /\ UNCHANGED <<breakerOnly, cvars, gvars>>

\* the operation a caller awaits returns or raises
RetryAttemptEnd(c, o) ==
    /\ calls[c].pc = "attempt"
    /\ LET r == AttemptEnd(rh, calls[c], o)
           cs == [calls EXCEPT ![c] = [r.call EXCEPT !.outs = Append(@, o)]]
       IN  /\ calls' = cs
           /\ rh' = Collect(r.rh, cs)
    /\ ev' = Event("attempt_end", c)
    /\ UNCHANGED <<nCalls, breakerOnly, cvars, gvars>>

\* a caller's backoff sleep ends
RetrySleepEnd(c) ==
    /\ calls[c].pc = "sleep"
    /\ LET r == Anext(rh, calls[c])
           cs == [calls EXCEPT ![c] = r.call]
       IN  /\ calls' = cs
           /\ rh' = Collect(r.rh, cs)
    /\ ev' = Event("sleep_end", c)
    /\ UNCHANGED <<nCalls, breakerOnly, cvars, gvars>>

\* a caller is cancelled in its backoff sleep: CancelledError leaves __anext__
RetryCancelSleep(c) ==
    /\ calls[c].pc = "sleep"
    /\ calls' = [calls EXCEPT ![c].pc = "idle", ![c].result = Cancelled,
                                ![c].cancelled = TRUE]
    /\ ev' = Event("cancel", c)
    /\ UNCHANGED <<rh, nCalls, breakerOnly, cvars, gvars>>

NextRetry ==
    \/ \E c \in Callers : RetryCall(c)
    \/ \E c \in Callers, o \in FuncOutcomes : RetryAttemptEnd(c, o)
    \/ \E c \in Callers : RetrySleepEnd(c)
    \/ \E c \in Callers : RetryCancelSleep(c)

SpecRetry == InitRetry /\ [][NextRetry]_vars

---------------------------------------------------------------------------
(* The backoff between the attempts of execute_with_retry: the wait strategy *)
(* RetryHandler.__init__ hands to AsyncRetrying, applied by tenacity's iter  *)
(* to the RetryCallState that __anext__ reads from the shared attribute.     *)
(* Waits are whole seconds.                                                  *)

\* the RetryConfig objects the validators accept: min_wait > 0, max_wait > 0,
\* exponential_base > 1, min_wait <= max_wait, max_attempts >= 1
RetryConfigs ==
    {cfg \in [max_attempts : 1..MaxBackoffAttempts,
              min_wait : 1..MaxWait,
              max_wait : 1..MaxWait,
              exponential_base : 2..MaxBase,
              jitter : BOOLEAN] : cfg.min_wait <= cfg.max_wait}

RECURSIVE Pow(_, _)
\* b ** e
Pow(b, e) == IF e = 0 THEN 1 ELSE b * Pow(b, e - 1)

Min(a, b) == IF a <= b THEN a ELSE b

Max(a, b) == IF a >= b THEN a ELSE b

\* RetryHandler._wait_exponential_no_jitter for attempt_number n
wait_exponential_no_jitter(cfg, n) ==
    Min(cfg.min_wait * Pow(cfg.exponential_base, n - 1), cfg.max_wait)

\* tenacity's wait_exponential(exp_base, min, max).__call__ for
\* attempt_number n: multiplier is 1, min is a floor, nothing random is added
wait_exponential(cfg, n) ==
    Max(Max(0, cfg.min_wait),
        Min(1 * Pow(cfg.exponential_base, n - 1), cfg.max_wait))

\* the wait_strategy RetryHandler.__init__ chooses
wait_strategy(cfg, n) ==
    IF cfg.jitter
    THEN wait_exponential(cfg, n)
    ELSE wait_exponential_no_jitter(cfg, n)

\* RetryHandler.__init__ with its config kept
NewBackoffHandler(cfg) ==
    [max_attempts |-> cfg.max_attempts, cur |-> 1,
     states |-> [i \in StateIds |-> NewRetryState], config |-> cfg]

\* the seconds of the DoSleep that iter returns in __anext__: the wait
\* strategy applied to the RetryCallState the handler holds at that moment
Sleep(h) == wait_strategy(h.config, h.states[h.cur].attempt_number)

IdleBackoffCall ==
    [pc |-> "idle", am |-> 0, invoked |-> 0, sleeps |-> 0, result |-> NoOutcome]

\* what the wrapped operation may do in one invocation: return, or time out
BackoffOutcomes == {Returned, Exc("TimeoutError", 0)}

\* the last step of a call: after its n-th invocation ended it sleeps `wait`
\* seconds ("sleep"), invokes again at once ("retry") or ends ("end")
BackoffEvent(type, c, n, wait) ==
    [type |-> type, caller |-> c, n |-> n, wait |-> wait]

\* the event of a step of the retry loop that led from h to the call k
Went(h, c, n, k) ==
    IF k.pc = "sleep"
    THEN BackoffEvent("sleep", c, n, Sleep(h))
    ELSE IF k.pc = "attempt"
         THEN BackoffEvent("retry", c, n, 0)
         ELSE BackoffEvent("end", c, n, 0)

InitBackoff ==
    /\ \E cfg \in RetryConfigs : rh = NewBackoffHandler(cfg)
    /\ calls = [c \in Callers |-> IdleBackoffCall]
    /\ nCalls = 0
    /\ ev = BackoffEvent("init", 0, 0, 0)
    /\ cb = NewCircuitBreaker(1, 1)
    /\ now = 0
    /\ invocations = 0
    /\ run = 0
    /\ exc = NoOutcome
    /\ verdict = "unset"
    /\ GatewayUnused

\* a caller enters execute_with_retry and its operation is invoked
BackoffCall(c) ==
    /\ calls[c].pc = "idle"
    /\ nCalls < MaxCalls
    /\ LET r == Begin(rh, calls[c], Held(calls))
           cs == [calls EXCEPT ![c] = r.call]
       IN  /\ calls' = cs
           /\ rh' = Collect(r.rh, cs)
    /\ nCalls' = nCalls + 1
    /\ ev' = BackoffEvent("begin", c, 0, 0)
    /\ UNCHANGED <<breakerOnly, cvars, gvars>>

\* the operation a caller awaits returns or raises: the call ends, sleeps, or
\* invokes the operation again
BackoffAttemptEnd(c, o) ==
    /\ calls[c].pc = "attempt"
    /\ LET r == AttemptEnd(rh, calls[c], o)
           cs == [calls EXCEPT ![c] = r.call]
       IN  /\ calls' = cs
           /\ rh' = Collect(r.rh, cs)
           /\ ev' = Went(rh, c, calls[c].invoked, r.call)
    /\ UNCHANGED <<nCalls, breakerOnly, cvars, gvars>>

\* a caller's backoff sleep ends: the next turn of the loop
BackoffSleepEnd(c) ==
    /\ calls[c].pc = "sleep"
    /\ LET r == Anext(rh, calls[c])
           cs == [calls EXCEPT ![c] = r.call]
       IN  /\ calls' = cs
           /\ rh' = Collect(r.rh, cs)
           /\ ev' = IF r.call.pc = "attempt"
                    THEN BackoffEvent("invoke", c, calls[c].invoked, 0)
                    ELSE Went(rh, c, calls[c].invoked, r.call)
    /\ UNCHANGED <<nCalls, breakerOnly, cvars, gvars>>

NextBackoff ==
    \/ \E c \in Callers : BackoffCall(c)
    \/ \E c \in Callers, o \in BackoffOutcomes : BackoffAttemptEnd(c, o)
    \/ \E c \in Callers : BackoffSleepEnd(c)

SpecBackoff == InitBackoff /\ [][NextBackoff]_vars

---------------------------------------------------------------------------
(* classify_http_exception applied to one exception *)

\* exception classes: the ones classify_http_exception names, and "Exception"
\* for every class it does not name
ExceptionTypes ==
    retryable_exceptions \cup non_retryable_exceptions
        \cup {"Exception", "CancelledError"}

Exceptions ==
    {HTTP(sc) : sc \in 1..MaxStatus} \cup {Exc(t, 0) : t \in ExceptionTypes}

InitClassify ==
    /\ exc \in Exceptions
    /\ verdict = "unset"
    /\ cb = NewCircuitBreaker(1, 1)
    /\ now = 0
    /\ calls = [c \in Callers |-> IdleCall]
    /\ nCalls = 0
    /\ invocations = 0
    /\ run = 0
    /\ ev = Event("init", 0)
    /\ rh = NoHandler
    /\ GatewayUnused

Classify ==
    /\ verdict = "unset"
    /\ verdict' = IF classify_http_exception(exc)
                  THEN "retryable"
                  ELSE "not_retryable"
    /\ UNCHANGED <<exc, bvars, rvars, gvars>>

NextClassify == Classify

SpecClassify == InitClassify /\ [][NextClassify]_vars

---------------------------------------------------------------------------
(* ResilienceHandler.execute_with_resilience: breaker.call(retry(func)) for *)
(* the callers of one provider, which share its breaker and retry handler   *)

CircuitOpen == Exc("CircuitBreakerOpenException", 0)

PublicStatusGeneric(e) ==
    IF e.type = "NonRetryableException" THEN e.status_code ELSE 502

\* the except clauses of execute_with_resilience: the HTTPException raised
\* for an exception e that left circuit_breaker.call
PublicStatus(e) ==
    IF e = CircuitOpen
    THEN 503
    ELSE IF e.type = "NonRetryableException"
         THEN e.status_code
         ELSE 502

\* what the wrapped operation may do in one invocation: return, or raise a
\* transient error, a fatal one (an HTTP error or not), or CancelledError
ResOutcomes ==
    {Returned, HTTP(429), HTTP(400), Exc("ValueError", 0), Cancelled}

IdleResCall ==
    [pc |-> "idle", probe |-> FALSE, am |-> 0, invoked |-> 0, sleeps |-> 0,
     result |-> NoOutcome]

\* the last step of execute_with_resilience that was taken: by which caller,
\* after how many invocations of its operation, and, when the call ended
\* there, with which outcome and which public HTTP status (0: none); o is
\* what the operation did in this step, if it ended in it
Response(type, c, k, status, o) ==
    [type |-> type, caller |-> c, invoked |-> k.invoked, sleeps |-> k.sleeps,
     result |-> k.result, status |-> status, outcome |-> o]

InitResilience ==
    /\ \E k \in 1..MaxThreshold, rt \in 1..MaxRecovery :
           cb = NewCircuitBreaker(k, rt)
    /\ \E n \in 1..MaxAttempts : rh = NewRetryHandler(n)
    /\ now = 0
    /\ calls = [c \in Callers |-> IdleResCall]
    /\ nCalls = 0
    /\ invocations = 0
    /\ run = 0
    /\ ev = Response("init", 0, IdleResCall, 0, NoOutcome)
    /\ exc = NoOutcome
    /\ verdict = "unset"
    /\ GatewayUnused

CompleteCountsAttempts(c, r, type, o) ==
    LET k == r.call
        done == [calls EXCEPT ![c] = IdleResCall]
    IN  IF k.pc # "idle"
        THEN /\ calls' = [calls EXCEPT ![c] = k]
             /\ rh' = Collect(r.rh, calls')
             /\ ev' = Response(type, c, k, 0, o)
             /\ cb' = IF type = "attempt_end" THEN on_failure(cb, now) ELSE cb
        ELSE /\ calls' = done
             /\ rh' = Collect(r.rh, done)
             /\ IF k.result \in {Returned, ReturnedNone}
                THEN /\ cb' = on_success(cb)
                     /\ ev' = Response("success", c, k, 200, o)
                ELSE IF k.result = Cancelled
                THEN /\ cb' = cb
                     /\ ev' = Response("cancel", c, k, 0, o)
                ELSE /\ cb' = on_failure(cb, now)
                     /\ ev' = Response("failure", c, k,
                                       PublicStatus(k.result), o)

CompleteIgnoresClientErrors(c, r, type, o) ==
    LET k == r.call
        done == [calls EXCEPT ![c] = IdleResCall]
    IN  IF k.pc # "idle"
        THEN /\ calls' = [calls EXCEPT ![c] = k]
             /\ rh' = Collect(r.rh, calls')
             /\ ev' = Response(type, c, k, 0, o)
             /\ cb' = cb
        ELSE /\ calls' = done
             /\ rh' = Collect(r.rh, done)
             /\ IF k.result \in {Returned, ReturnedNone}
                THEN /\ cb' = on_success(cb)
                     /\ ev' = Response("success", c, k, 200, o)
                ELSE IF k.result = Cancelled
                THEN /\ cb' = cb
                     /\ ev' = Response("cancel", c, k, 0, o)
                ELSE /\ cb' = IF k.result.type = "NonRetryableException"
                              THEN cb
                              ELSE on_failure(cb, now)
                     /\ ev' = Response("failure", c, k,
                                       PublicStatus(k.result), o)

\* circuit_breaker.call after resilient_execution ended with k.result, and the
\* except clauses of execute_with_resilience; r is the retry layer's step
Complete(c, r, type, o) ==
    LET k == r.call
        done == [calls EXCEPT ![c] = IdleResCall]
    IN  IF k.pc # "idle"
        THEN /\ calls' = [calls EXCEPT ![c] = k]
             /\ rh' = Collect(r.rh, calls')
             /\ ev' = Response(type, c, k, 0, o)
             /\ cb' = cb
        ELSE /\ calls' = done
             /\ rh' = Collect(r.rh, done)
             /\ IF k.result \in {Returned, ReturnedNone}
                THEN /\ cb' = on_success(cb)
                     /\ ev' = Response("success", c, k, 200, o)
                ELSE IF k.result = Cancelled
                THEN /\ cb' = cb
                     /\ ev' = Response("cancel", c, k, 0, o)
                ELSE /\ cb' = on_failure(cb, now)
                     /\ ev' = Response("failure", c, k,
                                       PublicStatus(k.result), o)

\* execute_with_resilience up to its first suspension: the breaker rejects
\* the call (HTTPException 503), or admits it and the retry layer invokes func
ResEnter(c) ==
    /\ calls[c].pc = "idle"
    /\ nCalls < MaxCalls
    /\ nCalls' = nCalls + 1
    /\ LET a == Admit(cb, now)
       IN  IF a.admitted
           THEN LET r == Begin(rh, [IdleResCall EXCEPT !.probe = a.probe],
                               Held(calls))
                    cs == [calls EXCEPT ![c] = r.call]
                IN  /\ cb' = a.cb
                    /\ calls' = cs
                    /\ rh' = Collect(r.rh, cs)
                    /\ ev' = Response("admit", c, r.call, 0, NoOutcome)
           ELSE /\ cb' = a.cb
                /\ ev' = Response("reject", c,
                                  [IdleResCall EXCEPT !.result = CircuitOpen],
                                  PublicStatus(CircuitOpen), NoOutcome)
                /\ UNCHANGED <<calls, rh>>
    /\ UNCHANGED <<now, invocations, run, cvars, gvars>>

\* the operation a caller awaits returns or raises
ResAttemptEnd(c, o) ==
    /\ calls[c].pc = "attempt"
    /\ Complete(c, AttemptEnd(rh, calls[c], o), "attempt_end", o)
    /\ UNCHANGED <<now, nCalls, invocations, run, cvars, gvars>>

\* a caller's backoff sleep ends
ResSleepEnd(c) ==
    /\ calls[c].pc = "sleep"
    /\ Complete(c, Anext(rh, calls[c]), "sleep_end", NoOutcome)
    /\ UNCHANGED <<now, nCalls, invocations, run, cvars, gvars>>

\* a caller is cancelled in its backoff sleep
ResCancelSleep(c) ==
    /\ calls[c].pc = "sleep"
    /\ calls' = [calls EXCEPT ![c] = IdleResCall]
    /\ ev' = Response("cancel", c, [calls[c] EXCEPT !.result = Cancelled], 0,
                      NoOutcome)
    /\ UNCHANGED <<cb, rh, now, nCalls, invocations, run, cvars, gvars>>

ResTick ==
    /\ now < MaxTime
    /\ now' = now + 1
    /\ ev' = Response("tick", 0, IdleResCall, 0, NoOutcome)
    /\ UNCHANGED <<cb, rh, calls, nCalls, invocations, run, cvars, gvars>>

NextResilience ==
    \/ \E c \in Callers : ResEnter(c)
    \/ \E c \in Callers, o \in ResOutcomes : ResAttemptEnd(c, o)
    \/ \E c \in Callers : ResSleepEnd(c)
    \/ \E c \in Callers : ResCancelSleep(c)
    \/ ResTick

SpecResilience == InitResilience /\ [][NextResilience]_vars

---------------------------------------------------------------------------
(* One provider's request path: BaseProvider.chat_completion hands the      *)
(* adapter's complete call to execute_with_resilience; the adapter is       *)
(* OpenAIAdapter.  Requests are taken one at a time here; calls that         *)
(* overlap in the breaker and the retry handler are SpecResilience's.        *)

\* what the upstream does in one HTTP exchange
Up(kind, sc) == [kind |-> kind, status_code |-> sc]

UpstreamAnswers ==
    {Up("ok", 200), Up("malformed", 200), Up("status", 400),
     Up("status", 401), Up("status", 429), Up("status", 500),
     Up("timeout", 0), Up("request_error", 0)}

NoAnswer == Up("none", 0)

\* the adapter's loop body for its exchange number i (from 0) answered by u:
\* the call ends with an outcome, or backs off and posts again
openai_exchange(i, max_retries, u) ==
    LET last == ~(i < max_retries - 1)
        end(o) == [do |-> "end", exc |-> o]
        again == [do |-> "backoff", exc |-> NoOutcome]
        sc == u.status_code
    IN  CASE u.kind = "ok" -> end(Returned)
          [] u.kind = "malformed" -> end(Exc("ValueError", 0))
          [] u.kind = "status" ->
                IF 400 <= sc /\ sc < 500 /\ sc # 429
                THEN end(HTTP(IF sc = 401 THEN 500 ELSE sc))
                ELSE IF ~last
                     THEN again
                     ELSE end(HTTP(IF sc = 429 THEN 429 ELSE 502))
          [] u.kind = "timeout" ->
                IF ~last THEN again ELSE end(HTTP(504))
          [] OTHER ->
                IF ~last THEN again ELSE end(HTTP(502))

IdleGwCall ==
    [pc |-> "idle", probe |-> FALSE, am |-> 0, invoked |-> 0, sleeps |-> 0,
     result |-> NoOutcome, apc |-> "none", i |-> 0, exchanges |-> 0,
     first |-> NoAnswer]

\* the last step of a request: as Response, with the number of HTTP
\* exchanges of the request, the upstream's first answer to it and the
\* breaker's failure_count before the step
GwResponse(type, c, k, status, fc) ==
    [type |-> type, caller |-> c, invoked |-> k.invoked, sleeps |-> k.sleeps,
     result |-> k.result, status |-> status, exchanges |-> k.exchanges,
     first |-> k.first, failures_before |-> fc]

InitGateway ==
    /\ \E k \in 1..MaxThreshold, rt \in 1..MaxRecovery :
           cb = NewCircuitBreaker(k, rt)
    /\ \E n \in 1..MaxAttempts : rh = NewRetryHandler(n)
    /\ \E m \in 0..MaxRetries : adapter = [max_retries |-> m]
    /\ now = 0
    /\ calls = [c \in Callers |-> IdleGwCall]
    /\ nCalls = 0
    /\ invocations = 0
    /\ run = 0
    /\ ev = GwResponse("init", 0, IdleGwCall, 0, 0)
    /\ exc = NoOutcome
    /\ verdict = "unset"
    /\ providers = Unused
    /\ router = Unused
    /\ health = Unused
    /\ config = Unused

\* the retry layer's step r invoked the adapter: its loop starts; with
\* max_retries = 0 the loop body never runs and the call returns at once
StartAdapter(r) ==
    IF r.call.pc # "attempt"
    THEN r
    ELSE IF adapter.max_retries = 0
         THEN AttemptEnd(r.rh, r.call, Returned)
         ELSE [rh |-> r.rh,
               call |-> [r.call EXCEPT !.apc = "post", !.i = 0]]

\* circuit_breaker.call and the except clauses of execute_with_resilience
\* once the retry layer's step r is taken
GwComplete(c, r, type) ==
    LET k == r.call
        done == [calls EXCEPT ![c] = IdleGwCall]
    IN  IF k.pc # "idle"
        THEN /\ calls' = [calls EXCEPT ![c] = k]
             /\ rh' = Collect(r.rh, calls')
             /\ ev' = GwResponse(type, c, k, 0, cb.failure_count)
             /\ cb' = cb
        ELSE /\ calls' = done
             /\ rh' = Collect(r.rh, done)
             /\ IF k.result \in {Returned, ReturnedNone}
                THEN /\ cb' = on_success(cb)
                     /\ ev' = GwResponse("success", c, k, 200,
                                         cb.failure_count)
                ELSE /\ cb' = on_failure(cb, now)
                     /\ ev' = GwResponse("failure", c, k,
                                         PublicStatus(k.result),
                                         cb.failure_count)

\* a request enters execute_with_resilience
GwEnter(c) ==
    /\ \A d \in Callers : calls[d].pc = "idle"
    /\ nCalls < MaxCalls
    /\ nCalls' = nCalls + 1
    /\ LET a == Admit(cb, now)
       IN  IF a.admitted
           THEN LET r == StartAdapter(
                         Begin(rh, [IdleGwCall EXCEPT !.probe = a.probe],
                               Held(calls)))
                    k == r.call
                    done == [calls EXCEPT ![c] = IdleGwCall]
                IN  IF k.pc # "idle"
                    THEN /\ cb' = a.cb
                         /\ calls' = [calls EXCEPT ![c] = k]
                         /\ rh' = Collect(r.rh, calls')
                         /\ ev' = GwResponse("admit", c, k, 0,
                                             cb.failure_count)
                    ELSE /\ cb' = on_success(a.cb)
                         /\ calls' = done
                         /\ rh' = Collect(r.rh, done)
                         /\ ev' = GwResponse("success", c, k, 200,
                                             cb.failure_count)
           ELSE /\ cb' = a.cb
                /\ ev' = GwResponse("reject", c,
                            [IdleGwCall EXCEPT !.result = CircuitOpen],
                            PublicStatus(CircuitOpen), cb.failure_count)
                /\ UNCHANGED <<calls, rh>>
    /\ UNCHANGED <<now, invocations, run, cvars, gvars>>

\* the upstream answers the exchange the adapter awaits
GwExchange(c, u) ==
    /\ calls[c].pc = "attempt"
    /\ calls[c].apc = "post"
    /\ LET k == [calls[c] EXCEPT
                    !.exchanges = @ + 1,
                    !.first = IF @ = NoAnswer THEN u ELSE @]
           d == openai_exchange(k.i, adapter.max_retries, u)
       IN  IF d.do = "backoff"
           THEN /\ calls' = [calls EXCEPT ![c] =
                                [k EXCEPT !.apc = "backoff", !.i = @ + 1]]
                /\ ev' = GwResponse("exchange", c, k, 0, cb.failure_count)
                /\ UNCHANGED <<cb, rh>>
           ELSE GwComplete(c,
                    StartAdapter(AttemptEnd(rh, [k EXCEPT !.apc = "none"],
                                            d.exc)),
                    "exchange")
    /\ UNCHANGED <<now, nCalls, invocations, run, cvars, gvars>>

\* the adapter's own backoff sleep ends: it posts again
GwBackoffEnd(c) ==
    /\ calls[c].pc = "attempt"
    /\ calls[c].apc = "backoff"
    /\ calls' = [calls EXCEPT ![c].apc = "post"]
    /\ ev' = GwResponse("backoff_end", c, calls[c], 0, cb.failure_count)
    /\ UNCHANGED <<cb, rh, now, nCalls, invocations, run, cvars, gvars>>

\* the retry layer's backoff sleep ends
GwSleepEnd(c) ==
    /\ calls[c].pc = "sleep"
    /\ GwComplete(c, StartAdapter(Anext(rh, calls[c])), "sleep_end")
    /\ UNCHANGED <<now, nCalls, invocations, run, cvars, gvars>>

GwTick ==
    /\ now < MaxTime
    /\ now' = now + 1
    /\ ev' = GwResponse("tick", 0, IdleGwCall, 0, cb.failure_count)
    /\ UNCHANGED <<cb, rh, calls, nCalls, invocations, run, cvars, gvars>>

NextGateway ==
    \/ \E c \in Callers : GwEnter(c)
    \/ \E c \in Callers, u \in UpstreamAnswers : GwExchange(c, u)
    \/ \E c \in Callers : GwBackoffEnd(c)
    \/ \E c \in Callers : GwSleepEnd(c)
    \/ GwTick

SpecGateway == InitGateway /\ [][NextGateway]_vars

---------------------------------------------------------------------------
(* ProviderRegistry, RequestRouter and the chat_completions route *)

Names == 1..NProviders

\* no provider name: the header is absent or empty
NoName == 0

\* the state of the resilience layer in a specification that leaves it out
ResilienceUnused ==
    /\ cb = NewCircuitBreaker(1, 1)
    /\ now = 0
    /\ calls = [c \in Callers |-> IdleCall]
    /\ nCalls = 0
    /\ invocations = 0
    /\ run = 0
    /\ rh = NoHandler
    /\ exc = NoOutcome
    /\ verdict = "unset"

\* a list of ProviderConfig with unique names: per name, absent or a config
\* that is enabled or not and whose construction by the factory succeeds or
\* raises
NoConfig == [present |-> FALSE, enabled |-> FALSE, constructs |-> FALSE]

ConfigLists ==
    [Names -> {NoConfig} \cup
              [present : {TRUE}, enabled : BOOLEAN, constructs : BOOLEAN]]

\* ProviderRegistry(): _providers maps a name to the adapter registered under
\* it (0: none); adapters are numbered as they are created and closes counts
\* the close() calls each received
NewProviderRegistry ==
    [registry |-> [n \in Names |-> 0],
     created |-> 0,
     closes |-> [i \in 1..MaxAdapters |-> 0]]

\* the names an initialize_from_config(cfgs) call registers
Registers(cfgs) ==
    {n \in Names : cfgs[n].present /\ cfgs[n].enabled /\ cfgs[n].constructs}

\* the number of names below n, n included, that are in S
Rank(S, n) == Cardinality({x \in S : x <= n})

InitializeKeepsOld(p, cfgs) ==
    LET S == Registers(cfgs)
    IN  [p EXCEPT
           !.registry = [n \in Names |->
               IF n \in S THEN p.created + Rank(S, n) ELSE p.registry[n]],
           !.created = p.created + Cardinality(S)]

\* initialize_from_config: _providers.clear(), then one new adapter per
\* enabled config whose construction does not raise
initialize_from_config(p, cfgs) ==
    LET S == Registers(cfgs)
    IN  [p EXCEPT
           !.registry = [n \in Names |->
               IF n \in S THEN p.created + Rank(S, n) ELSE 0],
           !.created = p.created + Cardinality(S)]

\* close_all: close() on every adapter in _providers, which stays as it is
close_all(p) ==
    [p EXCEPT !.closes = [i \in 1..MaxAdapters |->
        IF \E n \in Names : p.registry[n] = i THEN @[i] + 1 ELSE @[i]]]

\* a weight table: per name a weight, or None for a name not in the table
WeightTables == [Names -> {None} \cup (0..MaxWeight)]

Total(t) ==
    LET RECURSIVE sum(_)
        sum(n) == IF n = 0 THEN 0
                  ELSE (IF t[n] = None THEN 0 ELSE t[n]) + sum(n - 1)
    IN  sum(NProviders)

\* _validate_weights accepts the table: not empty, no negative weight, total
\* positive
ValidWeights(t) ==
    /\ \E n \in Names : t[n] # None
    /\ \A n \in Names : t[n] # None => t[n] >= 0
    /\ Total(t) > 0

\* RequestRouter(t): the table, each weight divided by the total
NewRequestRouter(t) ==
    [provider_weights |-> [n \in Names |->
        IF t[n] = None THEN [present |-> FALSE, num |-> 0, den |-> 1]
        ELSE [present |-> TRUE, num |-> t[n], den |-> Total(t)]]]

\* the names of the weight table that resolve in the registry
Available(p, r) ==
    {n \in Names : r.provider_weights[n].present /\ p.registry[n] # 0}

SelectIgnoresPriority(p, r, priority) ==
    LET A == Available(p, r)
    IN  IF A = {} THEN {0}
        ELSE IF \A n \in A : r.provider_weights[n].num = 0
             THEN {p.registry[n] : n \in A}
             ELSE {p.registry[n] :
                      n \in {x \in A : r.provider_weights[x].num > 0}}

SelectUniform(p, r, priority) ==
    LET A == Available(p, r)
    IN  IF priority # NoName /\ p.registry[priority] # 0
        THEN {p.registry[priority]}
        ELSE IF A = {} THEN {0} ELSE {p.registry[n] : n \in A}

SelectUnregistered(p, r, priority) ==
    LET T == {n \in Names : r.provider_weights[n].present}
    IN  IF priority # NoName /\ p.registry[priority] # 0
        THEN {p.registry[priority]}
        ELSE {p.registry[n] : n \in T} \cup {p.created + 1}

\* select_provider: the adapters it may return (0: None); random.choices
\* returns an element of positive weight, random.choice any element
select_provider(p, r, priority) ==
    LET A == Available(p, r)
    IN  IF priority # NoName /\ p.registry[priority] # 0
        THEN {p.registry[priority]}
        ELSE IF A = {} THEN {0}
        ELSE IF \A n \in A : r.provider_weights[n].num = 0
             THEN {p.registry[n] : n \in A}
             ELSE {p.registry[n] :
                      n \in {x \in A : r.provider_weights[x].num > 0}}

\* what provider.chat_completion may end with, as a public status
ProviderStatuses == {200, 400, 500, 502, 503}

\* the last step taken on the registry or the router
RoutingEvent(type, priority, selected, status, invoked, cfgs, before) ==
    [type |-> type, priority |-> priority, selected |-> selected,
     status |-> status, invoked |-> invoked, configs |-> cfgs,
     created_before |-> before]

NoConfigs == [n \in Names |-> NoConfig]

\* the registry before the application's lifespan initializes it
InitRegistry ==
    /\ providers = NewProviderRegistry
    /\ router = Unused
    /\ ev = RoutingEvent("init", NoName, 0, 0, FALSE, NoConfigs, 0)
    /\ adapter = Unused
    /\ health = Unused
    /\ ResilienceUnused
    /\ config = Unused

\* the application serving requests: lifespan has initialized the registry
\* from the configured providers, get_router builds the request's router
InitRouting ==
    /\ \E cfgs \in ConfigLists :
           providers = initialize_from_config(NewProviderRegistry, cfgs)
    /\ \E t \in WeightTables :
           ValidWeights(t) /\ router = NewRequestRouter(t)
    /\ ev = RoutingEvent("init", NoName, 0, 0, FALSE, NoConfigs, 0)
    /\ adapter = Unused
    /\ health = Unused
    /\ ResilienceUnused
    /\ config = Unused

\* provider_registry.initialize_from_config(cfgs)
InitializeFromConfig(cfgs) ==
    /\ providers.created + Cardinality(Registers(cfgs)) <= MaxAdapters
    /\ providers' = initialize_from_config(providers, cfgs)
    /\ ev' = RoutingEvent("initialize", NoName, 0, 0, FALSE, cfgs,
                          providers.created)
    /\ UNCHANGED <<router, adapter, health, cb, now, calls, nCalls,
                   invocations, run, rh, exc, verdict, config>>

\* provider_registry.close_all()
CloseAll ==
    /\ \A i \in 1..MaxAdapters : providers.closes[i] < MaxCloses
    /\ providers' = close_all(providers)
    /\ ev' = RoutingEvent("close_all", NoName, 0, 0, FALSE, NoConfigs,
                          providers.created)
    /\ UNCHANGED <<router, adapter, health, cb, now, calls, nCalls,
                   invocations, run, rh, exc, verdict, config>>

\* get_router(): a RequestRouter over the configured weights
GetRouter(t) ==
    /\ ValidWeights(t)
    /\ router' = NewRequestRouter(t)
    /\ router' # router
    /\ ev' = RoutingEvent("get_router", NoName, 0, 0, FALSE, NoConfigs,
                          providers.created)
    /\ UNCHANGED <<providers, adapter, health, cb, now, calls, nCalls,
                   invocations, run, rh, exc, verdict, config>>

\* the chat_completions route: select_provider, 503 without a provider,
\* else provider.chat_completion and its status
ChatCompletions(priority) ==
    /\ \E sel \in select_provider(providers, router, priority) :
         IF sel = 0
         THEN ev' = RoutingEvent("request", priority, 0, 503, FALSE,
                                 NoConfigs, providers.created)
         ELSE \E st \in ProviderStatuses :
                ev' = RoutingEvent("request", priority, sel, st, TRUE,
                                   NoConfigs, providers.created)
    /\ UNCHANGED <<providers, router, adapter, health, cb, now, calls,
                   nCalls, invocations, run, rh, exc, verdict, config>>

NextRegistry ==
    \/ \E cfgs \in ConfigLists : InitializeFromConfig(cfgs)
    \/ CloseAll

SpecRegistry == InitRegistry /\ [][NextRegistry]_vars

NextRouting ==
    \/ \E t \in WeightTables : GetRouter(t)
    \/ \E priority \in Names \cup {NoName} : ChatCompletions(priority)

SpecRouting == InitRouting /\ [][NextRouting]_vars

---------------------------------------------------------------------------
(* RequestRouter.update_weights on a router that is kept in use *)

\* a weight below zero
NegativeWeight == -2

\* the tables update_weights may be handed: valid ones, and empty ones, ones
\* with a negative weight and ones whose total is not positive
NewWeightTables == [Names -> {None, NegativeWeight} \cup (0..MaxWeight)]

\* new_weights.copy() as assigned to self.provider_weights: not normalised
Assigned(t) ==
    [provider_weights |-> [n \in Names |->
        IF t[n] = None THEN [present |-> FALSE, num |-> 0, den |-> 1]
        ELSE [present |-> TRUE, num |-> t[n], den |-> 1]]]

\* update_weights(t) on router r: the router after it and whether
\* _validate_weights raised ValueError; the table is assigned before it is
\* validated
update_weights(r, t) ==
    IF ValidWeights(t)
    THEN [router |-> NewRequestRouter(t), raised |-> FALSE]
    ELSE [router |-> Assigned(t), raised |-> TRUE]

\* random.choices raised ValueError: the total of the weights is below zero
ChoicesRaises == -1

\* sum(weights) over the available providers of a table that was not
\* normalised
SumWeights(r, A) ==
    LET RECURSIVE sum(_)
        sum(n) == IF n = 0 THEN 0
                  ELSE (IF n \in A THEN r.provider_weights[n].num ELSE 0)
                           + sum(n - 1)
    IN  sum(NProviders)

\* select_provider on a router whose table may hold negative weights: with
\* one among the available providers, random.choice when the weights sum to
\* zero, ValueError from random.choices when the sum is negative, and else
\* whatever its bisection over the cumulative weights lands on
select_provider_unvalidated(p, r, priority) ==
    LET A == Available(p, r)
    IN  IF \A n \in A : r.provider_weights[n].num >= 0
        THEN select_provider(p, r, priority)
        ELSE IF priority # NoName /\ p.registry[priority] # 0
        THEN {p.registry[priority]}
        ELSE IF SumWeights(r, A) < 0
        THEN {ChoicesRaises}
        ELSE {p.registry[n] : n \in A}

\* the last step: an update with the table the router held before it and
\* whether it raised, or a selection with the adapter it returned
WeightsEvent(type, raised, before, selected) ==
    [type |-> type, raised |-> raised, before |-> before,
     selected |-> selected]

InitWeights ==
    /\ \E cfgs \in ConfigLists :
           providers = initialize_from_config(NewProviderRegistry, cfgs)
    /\ \E t \in WeightTables :
           ValidWeights(t) /\ router = NewRequestRouter(t)
    /\ ev = WeightsEvent("init", FALSE, router, 0)
    /\ adapter = Unused
    /\ health = Unused
    /\ ResilienceUnused
    /\ config = Unused

\* router.update_weights(t)
UpdateWeights(t) ==
    /\ LET u == update_weights(router, t)
       IN  /\ router' = u.router
           /\ ev' = WeightsEvent("update", u.raised, router, 0)
    /\ UNCHANGED <<providers, adapter, health, cb, now, calls, nCalls,
                   invocations, run, rh, exc, verdict, config>>

\* router.select_provider(priority)
SelectProvider(priority) ==
    /\ \E sel \in select_provider_unvalidated(providers, router, priority) :
           ev' = WeightsEvent("select", FALSE, router, sel)
    /\ UNCHANGED <<providers, router, adapter, health, cb, now, calls,
                   nCalls, invocations, run, rh, exc, verdict, config>>

NextWeights ==
    \/ \E t \in NewWeightTables : UpdateWeights(t)
    \/ \E priority \in Names \cup {NoName} : SelectProvider(priority)

SpecWeights == InitWeights /\ [][NextWeights]_vars

---------------------------------------------------------------------------
(* CircuitBreakerRegistry: the breakers of the providers, by name *)

\* a CircuitBreakerConfig: the tuning of a breaker
BreakerConfigs ==
    [failure_threshold : 1..MaxThreshold, recovery_timeout : 1..MaxRecovery]

\* CircuitBreaker.config of a breaker
ConfigOf(b) ==
    [failure_threshold |-> b.failure_threshold,
     recovery_timeout |-> b.recovery_timeout]

\* no breaker under a name
NoBreaker == [id |-> 0, b |-> Unused]

\* CircuitBreakerRegistry(): _circuit_breakers maps a name to a breaker
\* instance; the instances are numbered as they are created
NewCircuitBreakerRegistry ==
    [circuit_breakers |-> [n \in Names |-> NoBreaker], created |-> 0]

NewEntry(reg, cfg) ==
    [id |-> reg.created + 1,
     b |-> NewCircuitBreaker(cfg.failure_threshold, cfg.recovery_timeout)]

GetBreakerAlwaysNew(reg, n, cfg) ==
    [reg EXCEPT !.circuit_breakers[n] = NewEntry(reg, cfg),
                !.created = @ + 1]

\* CircuitBreakerRegistry.get_circuit_breaker: the registry after the call;
\* the breaker returned is the one it holds under the name
get_circuit_breaker(reg, n, cfg) ==
    LET e == reg.circuit_breakers[n]
    IN  IF e # NoBreaker /\ ConfigOf(e.b) = cfg
        THEN reg
        ELSE [reg EXCEPT !.circuit_breakers[n] = NewEntry(reg, cfg),
                         !.created = @ + 1]

\* the last step on the registry: for a get_circuit_breaker call, its
\* arguments
RegistryEvent(type, n, cfg) == [type |-> type, name |-> n, config |-> cfg]

NoBreakerConfig == [failure_threshold |-> 0, recovery_timeout |-> 0]

InitBreakerRegistry ==
    /\ cb = NewCircuitBreakerRegistry
    /\ now = 0
    /\ ev = RegistryEvent("init", NoName, NoBreakerConfig)
    /\ calls = [c \in Callers |-> IdleCall]
    /\ nCalls = 0
    /\ invocations = 0
    /\ run = 0
    /\ rh = NoHandler
    /\ exc = NoOutcome
    /\ verdict = "unset"
    /\ GatewayUnused

\* execute_with_resilience asks for the provider's breaker with the tuning
\* of the current configuration
GetCircuitBreaker(n, cfg) ==
    /\ cb' = get_circuit_breaker(cb, n, cfg)
    /\ cb'.created <= MaxBreakers
    /\ ev' = RegistryEvent("get", n, cfg)
    /\ UNCHANGED <<now, calls, nCalls, invocations, run, rvars, cvars, gvars>>

\* a call through the breaker registered under a name runs to its end: it
\* is rejected, or admitted and then succeeds or fails
BreakerCall(n, ok) ==
    /\ cb.circuit_breakers[n] # NoBreaker
    /\ LET a == Admit(cb.circuit_breakers[n].b, now)
           b == IF ~a.admitted THEN a.cb
                ELSE IF ok THEN on_success(a.cb)
                ELSE on_failure(a.cb, now)
       IN  /\ b # cb.circuit_breakers[n].b
           /\ cb' = [cb EXCEPT !.circuit_breakers[n].b = b]
    /\ ev' = RegistryEvent("call", n, NoBreakerConfig)
    /\ UNCHANGED <<now, calls, nCalls, invocations, run, rvars, cvars, gvars>>

RegistryTick ==
    /\ now < MaxTime
    /\ now' = now + 1
    /\ UNCHANGED <<cb, ev, calls, nCalls, invocations, run, rvars, cvars,
                   gvars>>

NextBreakerRegistry ==
    \/ \E n \in Names, cfg \in BreakerConfigs : GetCircuitBreaker(n, cfg)
    \/ \E n \in Names, ok \in BOOLEAN : BreakerCall(n, ok)
    \/ RegistryTick

SpecBreakerRegistry == InitBreakerRegistry /\ [][NextBreakerRegistry]_vars

---------------------------------------------------------------------------
(* The provider health cache: update_provider_health_cache *)

\* time.time() when the process starts: far more than any check_interval
\* after the 0 that _last_health_check starts with
HealthEpoch == MaxInterval + 1

\* no refresh has started yet
NoStart == -1

HealthStatuses == {"healthy", "unhealthy"}

\* the module's globals (_provider_health_cache, _last_health_check,
\* _health_check_lock: its holder and its FIFO of waiters), the health
\* configuration, and each caller's position in
\* update_provider_health_cache with the current_time it read; arrived and
\* started are history: whether the caller found a refresh running when it
\* called, and when the latest refresh started; tasks are the providers
\* whose health checks the running refresh waits for
NewHealth(interval, enabled) ==
    [cache |-> [n \in Names |-> "none"],
     last_health_check |-> 0,
     holder |-> 0,
     waiters |-> <<>>,
     check_interval |-> interval,
     enabled |-> enabled,
     tasks |-> {},
     pc |-> [c \in Callers |-> "idle"],
     current_time |-> [c \in Callers |-> 0],
     arrived |-> [c \in Callers |-> FALSE],
     started |-> NoStart]

\* the last step of a caller
HealthEvent(type, c, waited, prev) ==
    [type |-> type, caller |-> c, at |-> now, waited |-> waited,
     prev_start |-> prev]

\* (current_time - _last_health_check) < config.health.check_interval
ShouldSkipAtInterval(h, t) == t - h.last_health_check <= h.check_interval

ShouldSkip(h, t) == t - h.last_health_check < h.check_interval

\* the body under the lock up to its first suspension, for caller c that got
\* the lock at time t: return when the last refresh is recent; else start the
\* health checks and wait for them in gather, which does not suspend when no
\* provider is enabled
UnderLock(h, c, t) ==
    IF ShouldSkip(h, t)
    THEN [h EXCEPT !.pc[c] = "idle", !.arrived[c] = FALSE]
    ELSE IF h.enabled = {}
    THEN [h EXCEPT !.pc[c] = "idle", !.arrived[c] = FALSE,
                   !.last_health_check = t, !.started = t]
    ELSE [h EXCEPT !.pc[c] = "refreshing", !.arrived[c] = FALSE,
                   !.holder = c, !.current_time[c] = t, !.started = t,
                   !.tasks = h.enabled]

InitHealth ==
    /\ \E interval \in 1..MaxInterval, enabled \in SUBSET Names :
           health = NewHealth(interval, enabled)
    /\ now = HealthEpoch
    /\ ev = HealthEvent("init", 0, FALSE, NoStart)
    /\ cb = NewCircuitBreaker(1, 1)
    /\ calls = [c \in Callers |-> IdleCall]
    /\ nCalls = 0
    /\ invocations = 0
    /\ run = 0
    /\ rh = NoHandler
    /\ exc = NoOutcome
    /\ verdict = "unset"
    /\ adapter = Unused
    /\ providers = Unused
    /\ router = Unused
    /\ config = Unused

\* a readiness or detailed-health query calls update_provider_health_cache:
\* `async with _health_check_lock` takes a free lock that nobody waits for
\* without suspending, else the caller queues
UpdateCall(c) ==
    /\ health.pc[c] = "idle"
    /\ IF health.holder = 0 /\ health.waiters = <<>>
       THEN /\ health' = UnderLock(health, c, now)
            /\ ev' = HealthEvent(IF ShouldSkip(health, now) THEN "skip"
                                 ELSE "refresh", c, FALSE, health.started)
       ELSE /\ health' = [health EXCEPT !.pc[c] = "waiting",
                                        !.waiters = Append(@, c),
                                        !.arrived[c] = (health.holder # 0)]
            /\ ev' = HealthEvent("wait", c, health.holder # 0,
                                 health.started)
    /\ UNCHANGED <<now, cb, calls, nCalls, invocations, run, rh, cvars,
                   adapter, providers, router, config>>

\* the released lock wakes its first waiter, which takes the lock
LockAcquired(c) ==
    /\ health.holder = 0
    /\ health.waiters # <<>>
    /\ Head(health.waiters) = c
    /\ health' = UnderLock([health EXCEPT !.waiters = Tail(@)], c, now)
    /\ ev' = HealthEvent(IF ShouldSkip(health, now) THEN "skip"
                         ELSE "refresh", c, health.arrived[c],
                         health.started)
    /\ UNCHANGED <<now, cb, calls, nCalls, invocations, run, rh, cvars,
                   adapter, providers, router, config>>

\* gather returns one result per enabled provider: the cache takes them,
\* _last_health_check takes the current_time read before the checks, and
\* the lock is released
RefreshEnd(c, results) ==
    /\ health.pc[c] = "refreshing"
    /\ health' = [health EXCEPT
           !.cache = [n \in Names |-> IF n \in health.tasks
                                      THEN results[n] ELSE @[n]],
           !.tasks = {},
           !.last_health_check = health.current_time[c],
           !.holder = 0,
           !.pc[c] = "idle",
           !.current_time[c] = 0]
    /\ ev' = HealthEvent("refreshed", c, FALSE, health.started)
    /\ UNCHANGED <<now, cb, calls, nCalls, invocations, run, rh, cvars,
                   adapter, providers, router, config>>

\* time.time() advances
HealthTick ==
    /\ now < HealthEpoch + MaxHealthTime
    /\ now' = now + 1
    /\ UNCHANGED <<health, ev, cb, calls, nCalls, invocations, run, rh,
                   cvars, adapter, providers, router, config>>

NextHealth ==
    \/ \E c \in Callers : UpdateCall(c)
    \/ \E c \in Callers : LockAcquired(c)
    \/ \E c \in Callers, results \in [Names -> HealthStatuses] :
           RefreshEnd(c, results)
    \/ HealthTick

SpecHealth == InitHealth /\ [][NextHealth]_vars

---------------------------------------------------------------------------
(* GET /ready of app/api/health.py, with the configuration hot-reloaded *)

\* the providers of a GatewayConfig: per name, whether it is enabled and its
\* routing weight
ProviderConfigs == [Names -> [enabled : BOOLEAN, weight : 0..MaxWeight]]

Enabled(cfg) == {n \in Names : cfg[n].enabled}

\* GatewayConfig.get_provider_weights: the enabled providers with a positive
\* weight
get_provider_weights(cfg) ==
    [n \in Names |-> IF cfg[n].enabled /\ cfg[n].weight > 0
                     THEN cfg[n].weight ELSE None]

\* RequestRouter.get_available_providers: the names of the weight table that
\* the registry holds
get_available_providers(p, r) == Available(p, r)

\* the healthy providers readiness_check counts: the available providers
\* with a healthy cache entry, or every available provider when the cache
\* is empty
healthy_providers(h, p, r) ==
    IF \E n \in Names : h.cache[n] # "none"
    THEN {n \in get_available_providers(p, r) : h.cache[n] = "healthy"}
    ELSE get_available_providers(p, r)

\* the status readiness_check answers
ReadyStatus(h, p, r) == IF healthy_providers(h, p, r) # {} THEN 200 ELSE 503

\* a request for GET /ready: idle, its router built (get_router ran), or
\* inside update_provider_health_cache
IdleRequest == [pc |-> "idle", provider_weights |-> [n \in Names |-> None]]

\* the last answer of GET /ready
ReadyEvent(type, c, status) == [type |-> type, caller |-> c, status |-> status]

\* the application serving: lifespan registered the enabled providers of the
\* startup configuration whose construction succeeded
InitReady ==
    /\ config \in ProviderConfigs
    /\ \E ok \in SUBSET Names :
           providers = initialize_from_config(NewProviderRegistry,
               [n \in Names |-> [present |-> TRUE,
                                 enabled |-> config[n].enabled,
                                 constructs |-> n \in ok]])
    /\ \E interval \in 1..MaxInterval :
           health = NewHealth(interval, Enabled(config))
    /\ router = [c \in Callers |-> IdleRequest]
    /\ now = HealthEpoch
    /\ ev = ReadyEvent("init", 0, 0)
    /\ cb = NewCircuitBreaker(1, 1)
    /\ calls = [c \in Callers |-> IdleCall]
    /\ nCalls = 0
    /\ invocations = 0
    /\ run = 0
    /\ rh = NoHandler
    /\ exc = NoOutcome
    /\ verdict = "unset"
    /\ adapter = Unused

\* the watched configuration file changed: reload_config replaces the
\* configuration; no reload callback is registered, the registry stays
ReloadConfig(cfg) ==
    /\ cfg # config
    /\ config' = cfg
    /\ health' = [health EXCEPT !.enabled = Enabled(cfg)]
    /\ UNCHANGED <<ev, now, router, providers, cb, calls, nCalls, invocations,
                   run, rh, cvars, adapter>>

\* the dependency get_router of a GET /ready request; the requests are
\* served one at a time (concurrent callers of the update are SpecHealth's)
ReadyGetRouter(c) ==
    /\ \A d \in Callers : router[d].pc = "idle"
    /\ router' = [router EXCEPT ![c] =
           [pc |-> "handler",
            provider_weights |->
                NewRequestRouter(get_provider_weights(config)).provider_weights]]
    /\ UNCHANGED <<ev, now, health, config, providers, cb, calls, nCalls,
                   invocations, run, rh, cvars, adapter>>

\* what follows a step of update_provider_health_cache by caller c: when
\* the update returned, readiness_check answers from the cache, else the
\* request stays inside the update
AfterUpdate(c) ==
    IF health'.pc[c] = "idle"
    THEN /\ ev' = ReadyEvent("ready", c,
                             ReadyStatus(health', providers, router[c]))
         /\ router' = [router EXCEPT ![c] = IdleRequest]
    ELSE /\ ev' = ev
         /\ router' = [router EXCEPT ![c].pc = "update"]

\* readiness_check starts: update_provider_health_cache takes the free
\* lock and runs up to its first suspension
ReadyUpdateCall(c) ==
    /\ router[c].pc = "handler"
    /\ health.holder = 0 /\ health.waiters = <<>>
    /\ health' = UnderLock(health, c, now)
    /\ AfterUpdate(c)
    /\ UNCHANGED <<now, config, providers, cb, calls, nCalls, invocations,
                   run, rh, cvars, adapter>>

\* gather returns: the cache takes the results, the update returns and
\* readiness_check answers
ReadyRefreshEnd(c, results) ==
    /\ router[c].pc = "update"
    /\ health.pc[c] = "refreshing"
    /\ health' = [health EXCEPT
           !.cache = [n \in Names |-> IF n \in health.tasks
                                      THEN results[n] ELSE @[n]],
           !.tasks = {},
           !.last_health_check = health.current_time[c],
           !.holder = 0,
           !.pc[c] = "idle",
           !.current_time[c] = 0]
    /\ AfterUpdate(c)
    /\ UNCHANGED <<now, config, providers, cb, calls, nCalls, invocations,
                   run, rh, cvars, adapter>>

ReadyTick ==
    /\ now < HealthEpoch + MaxHealthTime
    /\ now' = now + 1
    /\ UNCHANGED <<health, ev, config, router, providers, cb, calls, nCalls,
                   invocations, run, rh, cvars, adapter>>

NextReady ==
    \/ \E cfg \in ProviderConfigs : ReloadConfig(cfg)
    \/ \E c \in Callers : ReadyGetRouter(c)
    \/ \E c \in Callers : ReadyUpdateCall(c)
    \/ \E c \in Callers, results \in [Names -> HealthStatuses] :
           ReadyRefreshEnd(c, results)
    \/ ReadyTick

SpecReady == InitReady /\ [][NextReady]_vars

---------------------------------------------------------------------------
(* The entries of the provider health cache: check_provider_health and the  *)
(* loop of update_provider_health_cache over the results of gather, with    *)
(* the set of enabled providers changed by configuration reloads.  The      *)
(* updates are taken one at a time (callers that queue are SpecHealth's).   *)

\* a cache entry: its "status" and "error" keys
Entry(status, error) == [status |-> status, error |-> error]

\* no entry under a name
NoEntry == Entry("none", "none")

\* what one health check meets: no health_check_url, an answer with a status
\* code, httpx.TimeoutException, another exception of the request, or an
\* Exception that leaves check_provider_health itself
CheckOutcomes ==
    {Up("no_url", 0), Up("status", 200), Up("status", 500), Up("timeout", 0),
     Up("request_error", 0), Up("raised", 0)}

\* the name is not among the tasks of the refresh
NotChecked == Up("none", 0)

\* check_provider_health: the dict it returns
check_provider_health(u) ==
    IF u.kind = "no_url"
    THEN Entry("healthy", "none")
    ELSE IF u.kind = "status"
         THEN IF u.status_code = 200
              THEN Entry("healthy", "none")
              ELSE Entry("unhealthy", "HTTP status")
         ELSE IF u.kind = "timeout"
              THEN Entry("unhealthy", "Timeout")
              ELSE Entry("unhealthy", "str(e)")

StoreDropsRaised(cache, tasks, results) ==
    [n \in Names |->
        IF n \in tasks
        THEN IF results[n].kind = "raised"
             THEN NoEntry
             ELSE check_provider_health(results[n])
        ELSE cache[n]]

\* the loop over health_results: a result that is an Exception is logged
\* and skipped, every other result is stored under its name
store_results(cache, tasks, results) ==
    [n \in Names |->
        IF n \in tasks /\ results[n].kind # "raised"
        THEN check_provider_health(results[n])
        ELSE cache[n]]

\* the last step of an update: for a finished refresh, what each check met
CacheEvent(type, c, results) ==
    [type |-> type, caller |-> c, results |-> results]

NoResults == [n \in Names |-> NotChecked]

InitHealthCache ==
    /\ \E interval \in 1..MaxInterval, enabled \in SUBSET Names :
           health = [NewHealth(interval, enabled) EXCEPT
                        !.cache = [n \in Names |-> NoEntry]]
    /\ now = HealthEpoch
    /\ ev = CacheEvent("init", 0, NoResults)
    /\ cb = NewCircuitBreaker(1, 1)
    /\ calls = [c \in Callers |-> IdleCall]
    /\ nCalls = 0
    /\ invocations = 0
    /\ run = 0
    /\ rh = NoHandler
    /\ exc = NoOutcome
    /\ verdict = "unset"
    /\ adapter = Unused
    /\ providers = Unused
    /\ router = Unused
    /\ config = Unused

\* the watched configuration file changed: other providers are enabled
CacheReload(enabled) ==
    /\ enabled # health.enabled
    /\ health' = [health EXCEPT !.enabled = enabled]
    /\ UNCHANGED <<ev, now, cb, calls, nCalls, invocations, run, rh, cvars,
                   adapter, providers, router, config>>

\* update_provider_health_cache is called while the lock is free: it
\* returns at once, or starts the checks of the enabled providers
CacheUpdateCall(c) ==
    /\ health.pc[c] = "idle"
    /\ health.holder = 0 /\ health.waiters = <<>>
    /\ health' = UnderLock(health, c, now)
    /\ ev' = CacheEvent(IF health'.pc[c] = "refreshing" THEN "refresh"
                        ELSE "return", c, NoResults)
    /\ UNCHANGED <<now, cb, calls, nCalls, invocations, run, rh, cvars,
                   adapter, providers, router, config>>

\* gather returns one result per task, met by its check: the loop stores them,
\* _last_health_check is set, the lock is released and the update returns
CacheRefreshEnd(c, met) ==
    /\ health.pc[c] = "refreshing"
    /\ LET results == [n \in Names |->
                          IF n \in health.tasks THEN met[n] ELSE NotChecked]
       IN  /\ health' = [health EXCEPT
                  !.cache = store_results(@, health.tasks, results),
                  !.tasks = {},
                  !.last_health_check = health.current_time[c],
                  !.holder = 0,
                  !.pc[c] = "idle",
                  !.current_time[c] = 0]
           /\ ev' = CacheEvent("refreshed", c, results)
    /\ UNCHANGED <<now, cb, calls, nCalls, invocations, run, rh, cvars,
                   adapter, providers, router, config>>

CacheTick ==
    /\ now < HealthEpoch + MaxHealthTime
    /\ now' = now + 1
    /\ UNCHANGED <<health, ev, cb, calls, nCalls, invocations, run, rh,
                   cvars, adapter, providers, router, config>>

NextHealthCache ==
    \/ \E enabled \in SUBSET Names : CacheReload(enabled)
    \/ \E c \in Callers : CacheUpdateCall(c)
    \/ \E c \in Callers : \E met \in [health.tasks -> CheckOutcomes] :
           CacheRefreshEnd(c, met)
    \/ CacheTick

SpecHealthCache == InitHealthCache /\ [][NextHealthCache]_vars



---------------------------------------------------------------------------
(* Claims about CircuitBreaker.call, checked under SpecBreaker *)

ProbesInFlight == {c \in Callers : calls[c].pc = "running" /\ calls[c].probe}

\* a step that is the entry of a call into CircuitBreaker.call
IsEnter == nCalls' = nCalls + 1

\* a rejected entry: CircuitBreakerOpenException, the function not invoked
Rejected ==
    /\ ev'.type = "reject"
    /\ calls'[ev'.caller].pc = "idle"
    /\ calls'[ev'.caller].result = "rejected"
    /\ invocations' = invocations

\* an admitted entry: the wrapped function is invoked
Admitted ==
    /\ ev'.type = "admit"
    /\ calls'[ev'.caller].pc = "running"
    /\ invocations' = invocations + 1

\* C1: with failure_threshold = k, the failure that completes k consecutive
\* failing calls (no success in between) leaves the breaker OPEN, and a call
\* entering an OPEN breaker before recovery_timeout has elapsed is rejected
\* with CircuitBreakerOpenException without invoking the wrapped function.
C1_OpensAtThreshold ==
    [][ /\ (run' = run + 1 /\ run' = cb.failure_threshold
              => cb'.state = "OPEN")
        /\ (IsEnter /\ cb.state = "OPEN" /\ run >= cb.failure_threshold
              /\ now - cb.last_failure_time < cb.recovery_timeout
              => Rejected) ]_vars

C1_Witness ==
    /\ cb.failure_threshold > 1
    /\ cb.state = "OPEN"
    /\ run = cb.failure_threshold
    /\ invocations = cb.failure_threshold
    /\ nCalls = cb.failure_threshold + 1
    /\ ev.type = "reject"

\* C2: while the breaker is HALF_OPEN and a probe is in flight, every call
\* entering CircuitBreaker.call is rejected with CircuitBreakerOpenException
\* and its wrapped function is not invoked.
C2_HalfOpenRejects ==
    [][ IsEnter /\ cb.state = "HALF_OPEN" /\ ProbesInFlight # {}
          => Rejected /\ cb' = cb ]_vars

C2_Witness ==
    /\ ev.type = "reject"
    /\ cb.state = "HALF_OPEN"
    /\ \E p \in ProbesInFlight : p # ev.caller

\* C3: on one breaker at most one call admitted by an OPEN -> HALF_OPEN
\* transition is in flight at any time, in every interleaving.
C3_AtMostOneProbe == Cardinality(ProbesInFlight) <= 1

\* C4: when the probe of a HALF_OPEN breaker succeeds the breaker becomes
\* CLOSED with failure_count = 0 and the probe-in-flight flag cleared, and a
\* call arriving next is admitted and invokes the wrapped function.
C4_ProbeSuccessCloses ==
    [][ ev'.type = "success" /\ calls[ev'.caller].probe
          /\ cb.state = "HALF_OPEN"
          => /\ cb'.state = "CLOSED"
             /\ cb'.failure_count = 0
             /\ ~cb'.half_open_in_flight
             /\ \A t \in now'..MaxTime :
                    LET a == Admit(cb', t)
                    IN  a.admitted /\ ~a.probe /\ a.cb = cb' ]_vars

C4_Witness ==
    /\ ev.type = "success"
    /\ calls[ev.caller].probe
    /\ cb.state = "CLOSED"
    /\ cb.failure_count = 0
    /\ nCalls = cb.failure_threshold + 1
    /\ invocations = nCalls

\* C5: when the probe of a HALF_OPEN breaker fails the breaker is OPEN
\* again, last_failure_time is the time of that failure and the
\* probe-in-flight flag is cleared, for every failure_threshold >= 1.
C5_ProbeFailureReopens ==
    [][ ev'.type = "failure" /\ calls[ev'.caller].probe
          /\ cb.state = "HALF_OPEN"
          => /\ cb'.state = "OPEN"
             /\ cb'.last_failure_time = now
             /\ ~cb'.half_open_in_flight ]_vars

C5_Witness ==
    /\ ev.type = "failure"
    /\ calls[ev.caller].probe
    /\ cb.failure_threshold > 1
    /\ cb.state = "OPEN"
    /\ cb.last_failure_time = now
    /\ now > 0
    /\ nCalls = cb.failure_threshold + 1
    /\ invocations = nCalls

\* C6: a call entering an OPEN breaker while
\* now - last_failure_time < recovery_timeout is short-circuited without
\* invoking the wrapped function; a call entering it when
\* now - last_failure_time >= recovery_timeout moves the breaker to
\* HALF_OPEN, sets the probe-in-flight flag and is admitted.
C6_OpenAdmission ==
    [][ IsEnter /\ cb.state = "OPEN"
          => IF now - cb.last_failure_time < cb.recovery_timeout
             THEN Rejected /\ cb' = cb
             ELSE /\ Admitted
                  /\ calls'[ev'.caller].probe
                  /\ cb'.state = "HALF_OPEN"
                  /\ cb'.half_open_in_flight ]_vars

C6_Witness ==
    /\ ev.type = "admit"
    /\ calls[ev.caller].probe
    /\ cb.state = "HALF_OPEN"
    /\ cb.half_open_in_flight
    /\ now - cb.last_failure_time = cb.recovery_timeout
    /\ \E c \in Callers : c # ev.caller /\ calls[c].result = "rejected"

---------------------------------------------------------------------------
(* Claims about RetryHandler.execute_with_retry, checked under SpecRetry *)

IsException(o) == o.type \notin {"none", "return", "return_none"}

\* a transient (retryable) failure of the operation
IsTransient(o) == IsException(o) /\ o # Cancelled /\ classify_http_exception(o)

\* a non-retryable failure of the operation
IsFatal(o) == IsException(o) /\ o # Cancelled /\ ~classify_http_exception(o)

Finished(k) == k.pc = "idle" /\ k.result # NoOutcome

\* the operation's outcomes so far were transient failures, but for a final
\* success
TransientOnly(outs) ==
    \A i \in 1..Len(outs) :
        \/ IsTransient(outs[i])
        \/ i = Len(outs) /\ outs[i] = Returned

\* C7: a call of execute_with_retry whose operation only fails with transient
\* outcomes before possibly succeeding invokes it
\* min(max_attempts, 1 + failures before the first success) times: never more
\* than max_attempts times, it ends with the operation's success if one was
\* reached, and otherwise after exactly max_attempts invocations re-raising
\* the last transient error.
C7_RetryBound ==
    \A c \in Callers :
        LET k == calls[c]
        IN  TransientOnly(k.outs) /\ ~k.cancelled =>
              /\ k.invoked <= rh.max_attempts
              /\ Finished(k) =>
                   IF k.outs[Len(k.outs)] = Returned
                   THEN k.result = Returned /\ k.invoked = Len(k.outs)
                   ELSE /\ k.invoked = rh.max_attempts
                        /\ k.result = k.outs[Len(k.outs)]

\* C8: an operation whose invocation fails with a non-retryable outcome is
\* invoked exactly once by execute_with_retry, whatever max_attempts is, and
\* the error is raised at once, with no backoff wait.
C8_NoRetryOfFatal ==
    \A c \in Callers :
        LET k == calls[c]
        IN  Len(k.outs) >= 1 /\ IsFatal(k.outs[1]) =>
              /\ k.invoked = 1
              /\ k.sleeps = 0
              /\ Finished(k)
              /\ k.result = NonRetryable(k.outs[1])

---------------------------------------------------------------------------
(* Claims about classify_http_exception, checked under SpecClassify *)

RetryableStatus(sc) == sc \in {408, 429} \/ (500 <= sc /\ sc <= 599)

\* C9 as stated: an outcome is marked retryable exactly when it is an HTTP
\* error with status 408, 429 or 500-599, or a connection/timeout error.
C9_AsStated ==
    verdict # "unset" =>
        (verdict = "retryable" <=>
            \/ exc.type = "HTTPException" /\ RetryableStatus(exc.status_code)
            \/ exc.type \in {"ConnectionError", "TimeoutError",
                             "asyncio.TimeoutError"})

\* C9: classify_http_exception marks an outcome retryable exactly when it is
\* an HTTP error with status 408, 429 or 500-599, a connection/timeout error
\* or a RetryableException; every other 4xx status, ValueError, TypeError,
\* NonRetryableException and any unknown exception type is not retryable.
C9_Classification ==
    verdict # "unset" =>
        (verdict = "retryable" <=>
            \/ exc.type = "HTTPException" /\ RetryableStatus(exc.status_code)
            \/ exc.type \in {"ConnectionError", "TimeoutError",
                             "asyncio.TimeoutError", "RetryableException"})

C9_Witness ==
    /\ exc.type = "RetryableException"
    /\ verdict = "retryable"

---------------------------------------------------------------------------
(* Claims about execute_with_resilience, checked under SpecResilience *)

\* the breaker short-circuits a call entering now
ShortCircuits ==
    \/ cb.state = "OPEN"
         /\ now - cb.last_failure_time < cb.recovery_timeout
    \/ cb.state = "HALF_OPEN" /\ cb.half_open_in_flight

\* C10: a call the breaker short-circuits (OPEN within recovery_timeout, or
\* HALF_OPEN with the probe in flight) is reported by
\* execute_with_resilience as public HTTP status 503, the operation not
\* invoked.
C10_CircuitOpenIs503 ==
    [][ IsEnter /\ ShortCircuits
          => /\ ev'.type = "reject"
             /\ ev'.status = 503
             /\ ev'.invoked = 0
             /\ calls'[ev'.caller].pc = "idle" ]_vars

C10_Witness ==
    /\ ev.type = "reject"
    /\ ev.status = 503
    /\ cb.state = "HALF_OPEN"
    /\ \E c \in Callers : c # ev.caller /\ calls[c].pc = "attempt"
                            /\ calls[c].probe

\* the public status the error table gives an exhausted transient failure e
ExhaustedStatus(e) ==
    IF e = HTTP(429)
    THEN 429
    ELSE IF e.type \in {"TimeoutError", "asyncio.TimeoutError"} \/ e = HTTP(408)
         THEN 504
         ELSE 502

\* C11: when retries are exhausted on a transient failure, the public status
\* of execute_with_resilience is 429 for a rate limit, 504 for a timeout and
\* 502 for any other transient failure.
C11_ExhaustedStatusByKind ==
    ev.type = "failure" /\ IsTransient(ev.result)
        => ev.status = ExhaustedStatus(ev.result)

\* C14: when the wrapped operation raises a non-retryable error that is not
\* an HTTP error (for example ValueError), execute_with_resilience reports
\* public status 500.
C14_NonHttpFatalIs500 ==
    /\ ev.type = "failure"
    /\ IsFatal(ev.outcome)
    /\ ev.outcome.type # "HTTPException"
    /\ ev.result = NonRetryable(ev.outcome)
    => ev.status = 500

---------------------------------------------------------------------------
(* Claims about one request through adapter, retry layer and breaker,       *)
(* checked under SpecGateway                                                *)

\* the request of caller c, in flight, got u as the upstream's first answer
InFlightAfter(c, u) == calls[c].pc # "idle" /\ calls[c].first = u

\* the last step ended a request whose first upstream answer was u
EndedAfter(u) == ev.type \in {"success", "failure"} /\ ev.first = u

---------------------------------------------------------------------------
(* Claims about the router and the route, checked under SpecRouting, and    *)
(* about the registry, checked under SpecRegistry                           *)

\* the last step was a request whose provider_priority names a registered
\* provider
UsablePriority ==
    ev.priority # NoName /\ providers.registry[ev.priority] # 0

\* the registered names with a positive weight in the router's table
PositiveRegistered ==
    {n \in Names : /\ providers.registry[n] # 0
                   /\ router.provider_weights[n].present
                   /\ router.provider_weights[n].num > 0}

\* C15: if provider_priority names a provider that is in the registry,
\* select_provider returns that provider, whatever the weights are (weight 0
\* or a name absent from the weight table included).
C15_PriorityWins ==
    ev.type = "request" /\ UsablePriority
        => ev.selected = providers.registry[ev.priority]

C15_Witness ==
    /\ ev.type = "request"
    /\ UsablePriority
    /\ ~router.provider_weights[ev.priority].present
    /\ PositiveRegistered # {}
    /\ ev.selected = providers.registry[ev.priority]

\* C16: without a usable provider_priority, when at least one registered
\* provider has positive weight, select_provider returns a provider that is
\* registered and has positive weight, never an unregistered or zero-weight
\* one.
C16_WeightedSelection ==
    ev.type = "request" /\ ~UsablePriority /\ PositiveRegistered # {}
        => \E n \in PositiveRegistered : ev.selected = providers.registry[n]

C16_Witness ==
    /\ ev.type = "request"
    /\ ev.priority = NoName
    /\ PositiveRegistered # {}
    /\ \E n \in Names : /\ providers.registry[n] # 0
                        /\ router.provider_weights[n].present
                        /\ router.provider_weights[n].num = 0
    /\ ev.selected # 0

\* C17: when no name of the weight table resolves in the registry and
\* provider_priority is absent or unregistered, select_provider returns no
\* provider and the request ends with public status 503 without any adapter
\* being invoked.
C17_NoProviderIs503 ==
    ev.type = "request" /\ ~UsablePriority /\ Available(providers, router) = {}
        => ev.selected = 0 /\ ev.status = 503 /\ ~ev.invoked

C17_Witness ==
    /\ ev.type = "request"
    /\ ev.priority # NoName
    /\ \E n \in Names : providers.registry[n] # 0
    /\ Available(providers, router) = {}
    /\ ev.status = 503

\* C18: after initialize_from_config(configs) the registry contains exactly
\* the providers of configs that are enabled and whose construction
\* succeeded: disabled ones and ones whose construction fails are absent, the
\* others are registered, and no provider of an earlier initialization
\* remains.
C18_RegistryAfterInitialize ==
    ev.type = "initialize" =>
        \A n \in Names :
            LET c == ev.configs[n]
            IN  IF c.present /\ c.enabled /\ c.constructs
                THEN /\ providers.registry[n] > ev.created_before
                     /\ providers.registry[n] <= providers.created
                ELSE providers.registry[n] = 0

C18_Witness ==
    /\ ev.type = "initialize"
    /\ ev.created_before > 0
    /\ \E n \in Names : ev.configs[n].enabled /\ ~ev.configs[n].constructs
    /\ \E n \in Names : providers.registry[n] > ev.created_before

\* C19: over any sequence of initialize_from_config and close_all calls every
\* adapter the registry created is closed exactly once: when a later
\* initialization replaces it or at close_all, and a second close_all closes
\* no adapter a second time.
C19_ClosedExactlyOnce ==
    \A i \in 1..providers.created :
        /\ providers.closes[i] <= 1
        /\ (\A n \in Names : providers.registry[n] # i)
              => providers.closes[i] = 1
        /\ ev.type = "close_all" => providers.closes[i] = 1

\* C20 as stated: two refreshes never start less than check_interval apart,
\* a caller that arrived during a running refresh waits for it and then
\* always skips, and a skipped call leaves the cache unchanged.
C20_AsStated ==
    [][/\ ev'.type = "refresh" /\ ev'.prev_start # NoStart
            => ev'.at - ev'.prev_start >= health.check_interval
       /\ ev'.type \in {"skip", "refresh"} /\ ev'.waited
            => ev'.type = "skip"
       /\ ev'.type = "skip" => health'.cache = health.cache]_vars

\* C20: two refreshes never start less than check_interval apart; a caller
\* that arrived during a running refresh waits for the lock and then skips
\* when less than check_interval has passed since the latest refresh
\* started, and refreshes again otherwise; a skipped call leaves the cache
\* unchanged.
C20_RefreshRateLimit ==
    [][/\ ev'.type = "refresh" /\ ev'.prev_start # NoStart
            => ev'.at - ev'.prev_start >= health.check_interval
       /\ ev'.type \in {"skip", "refresh"} /\ ev'.waited
            => (ev'.type = "skip"
                   <=> ev'.at - ev'.prev_start < health.check_interval)
       /\ ev'.type = "skip" => health'.cache = health.cache]_vars

C20_Witness ==
    /\ ev.type = "skip"
    /\ ev.waited
    /\ ev.at > ev.prev_start
    /\ \E n \in Names : health.cache[n] # "none"
    /\ \E c \in Callers : health.pc[c] = "waiting"

\* the registered providers with a healthy entry in the health cache
HealthyRegistered ==
    {n \in Names : providers.registry[n] # 0 /\ health.cache[n] = "healthy"}

C23_CancelIsNoFailure ==
    [][\A c \in Callers :
         calls[c].pc = "running" /\ calls'[c].pc = "idle"
         /\ calls'[c].result = "cancelled"
         => /\ cb'.failure_count = cb.failure_count
            /\ cb'.last_failure_time = cb.last_failure_time
            /\ cb'.state = cb.state]_vars

C23_Witness ==
    /\ ev.type = "cancel"
    /\ cb.state = "CLOSED"
    /\ cb.failure_count > 0
    /\ cb.failure_count = cb.failure_threshold - 1

\* C26: in every reachable state of a breaker, probe-in-flight implies that
\* the state is HALF_OPEN.
C26_FlagOnlyHalfOpen == cb.half_open_in_flight => cb.state = "HALF_OPEN"

C26_Witness ==
    /\ cb.half_open_in_flight
    /\ ev.type = "reject"
    /\ \E c \in Callers : calls[c].pc = "running" /\ calls[c].probe

\* C27: in every reachable state of a breaker, state OPEN implies that
\* last_failure_time is set, under any interleaving of successes and
\* failures of concurrent calls.
C27_OpenHasFailureTime == cb.state = "OPEN" => cb.last_failure_time # None

C27_Witness == cb.state = "OPEN" /\ ev.type = "success"

\* C28: a successful call on a CLOSED breaker leaves it CLOSED with
\* failure_count 0, and the breaker leaves CLOSED for OPEN only when
\* failure_threshold failures were recorded with no success in between.
C28_SuccessResetsCount ==
    [][/\ cb.state = "CLOSED" /\ ev'.type = "success"
          /\ calls[ev'.caller].pc = "running"
          => cb'.state = "CLOSED" /\ cb'.failure_count = 0
       /\ cb.state = "CLOSED" /\ cb'.state = "OPEN"
          => run' >= cb.failure_threshold]_vars

C28_Witness ==
    /\ ev.type = "success"
    /\ cb.state = "CLOSED"
    /\ cb.failure_count = 0
    /\ cb.last_failure_time # None
    /\ cb.failure_threshold > 1

\* C29: the breaker is never left HALF_OPEN with probe-in-flight set while
\* no probe is executing: when the probe ends, by success, failure or
\* cancellation, probe-in-flight becomes false.
C29_FlagNeedsProbe ==
    cb.state = "HALF_OPEN" /\ cb.half_open_in_flight => ProbesInFlight # {}

C25_OneExchangePerCall ==
    ev.type \in {"success", "failure"}
        => ev.exchanges <= ev.invoked /\ ev.exchanges <= rh.max_attempts

\* C24: get_circuit_breaker(name, config) returns the same breaker instance
\* with its state and failure count preserved while the tuning is unchanged,
\* a new breaker that is CLOSED with failure_count 0 when the tuning differs
\* from the existing breaker's, and distinct breakers for distinct names.
C24_BreakerPerNameAndTuning ==
    [][/\ ev'.type = "get" =>
            LET old == cb.circuit_breakers[ev'.name]
                e == cb'.circuit_breakers[ev'.name]
            IN  IF old # NoBreaker /\ ConfigOf(old.b) = ev'.config
                THEN e = old
                ELSE /\ e.id > cb.created
                     /\ e.b.state = "CLOSED"
                     /\ e.b.failure_count = 0
                     /\ ConfigOf(e.b) = ev'.config
       /\ \A n, m \in Names :
            n # m /\ cb'.circuit_breakers[n] # NoBreaker
               => cb'.circuit_breakers[n].id # cb'.circuit_breakers[m].id]_vars

C24_Witness ==
    /\ ev.type = "get"
    /\ cb.circuit_breakers[ev.name] # NoBreaker
    /\ cb.circuit_breakers[ev.name].b.state = "OPEN"
    /\ ConfigOf(cb.circuit_breakers[ev.name].b) = ev.config
    /\ \E m \in Names : m # ev.name /\ cb.circuit_breakers[m] # NoBreaker

---------------------------------------------------------------------------
(* Further claims about CircuitBreaker.call, checked under SpecBreaker *)

\* C38: a short-circuited call leaves the breaker untouched: state,
\* failure_count, last_failure_time and probe-in-flight are the same after
\* the rejection as before it.
C38_RejectLeavesBreaker ==
    [][ev'.type = "reject" /\ IsEnter => cb' = cb /\ run' = run]_vars

C38_Witness ==
    /\ ev.type = "reject"
    /\ cb.state = "OPEN"
    /\ cb.last_failure_time # None
    /\ now > cb.last_failure_time
    /\ now - cb.last_failure_time < cb.recovery_timeout

\* C37: state = HALF_OPEN implies probe-in-flight is true in every reachable
\* state, so a call that enters while the breaker is HALF_OPEN is never
\* admitted.
C37_HalfOpenHasFlag ==
    [][/\ cb'.state = "HALF_OPEN" => cb'.half_open_in_flight
       /\ IsEnter /\ cb.state = "HALF_OPEN" => Rejected]_vars

C37_Witness ==
    /\ cb.state = "HALF_OPEN"
    /\ cb.half_open_in_flight
    /\ ev.type = "reject"
    /\ ProbesInFlight # {}
    /\ cb.failure_threshold > 1
    /\ cb.failure_count >= cb.failure_threshold

\* C36: the breaker moves from HALF_OPEN to CLOSED, and probe-in-flight is
\* cleared while a probe is running, only by the success of a probe call,
\* never by the late success of a call admitted while the breaker was CLOSED.
C36_OnlyProbeCloses ==
    [][/\ cb.state = "HALF_OPEN" /\ cb'.state = "CLOSED"
          => ev'.type = "success" /\ calls[ev'.caller].probe
       /\ cb.half_open_in_flight /\ ~cb'.half_open_in_flight
          /\ ev'.type = "success"
          => calls[ev'.caller].probe]_vars

\* C31: every non-ok outcome returned to the breaker counts toward
\* failure_threshold, fatal client outcomes such as an upstream 400 included:
\* each request that ends in failure raises failure_count by one, and a
\* CLOSED breaker is OPEN once failure_threshold of them were counted.
C31_EveryFailureCounts ==
    [][ev'.type = "failure"
         => /\ cb'.failure_count = cb.failure_count + 1
            /\ cb'.last_failure_time = now
            /\ cb.state = "CLOSED"
                  /\ cb'.failure_count >= cb.failure_threshold
               => cb'.state = "OPEN"]_vars

C31_Witness ==
    /\ ev.type = "failure"
    /\ ev.outcome = HTTP(400)
    /\ ev.status = 400
    /\ ev.invoked = 1
    /\ cb.failure_threshold > 1
    /\ cb.failure_count = cb.failure_threshold
    /\ cb.state = "OPEN"
    /\ invocations = 0
    /\ nCalls = cb.failure_threshold

---------------------------------------------------------------------------
(* A further claim about the adapter, checked under SpecGateway *)

\* C39: a request is reported upward as a success only after the upstream
\* answered an exchange of the adapter's call, for every max_retries that
\* ProviderConfig accepts, 0 included.
C39_SuccessNeedsAnswer ==
    ev.type = "success" => ev.exchanges >= 1 /\ ev.first # NoAnswer

---------------------------------------------------------------------------
(* A further claim about RetryHandler, checked under SpecRetry *)

\* C35: calls that run concurrently through one handler each have their own
\* attempt counter: a call's attempt is counted in a RetryCallState no other
\* call's attempt uses, whose attempt_number is the number of times the call
\* invoked its operation, which is at least 1 and at most max_attempts.
C35_OwnAttemptCounter ==
    \A c \in Callers :
        LET k == calls[c]
        IN  k.pc = "attempt" =>
              /\ 1 <= k.invoked /\ k.invoked <= rh.max_attempts
              /\ rh.states[k.am].attempt_number = k.invoked
              /\ \A d \in Callers \ {c} :
                     calls[d].pc = "attempt" => calls[d].am # k.am

---------------------------------------------------------------------------
(* Claims about the backoff, checked under SpecBackoff *)

\* the computed wait after attempt n: min(max_wait, min_wait * exp_base^(n-1))
ComputedWait(cfg, n) ==
    Min(cfg.max_wait, cfg.min_wait * Pow(cfg.exponential_base, n - 1))

\* a step in which a call whose n-th attempt failed goes on to attempt n + 1
Backs == ev.type \in {"sleep", "retry"}

\* C32: with jitter disabled, the wait between attempt n and attempt n + 1
\* of a call is exactly min(max_wait, min_wait * exp_base^(n-1)), hence
\* neither above max_wait nor below min_wait.
C32_WaitWithoutJitter ==
    Backs /\ ~rh.config.jitter
        => /\ ev.wait = ComputedWait(rh.config, ev.n)
           /\ ev.wait <= rh.config.max_wait
           /\ ev.wait >= rh.config.min_wait

\* C33: with jitter enabled, the wait between attempt n and attempt n + 1
\* of a call is w plus a jitter in [0, w), where w is the computed wait
\* min(max_wait, min_wait * exp_base^(n-1)): at least w and less than 2w.
\* Stated for the first call that runs through the handler.
C33_WaitWithJitter ==
    Backs /\ rh.config.jitter /\ nCalls = 1
        => /\ ev.wait >= ComputedWait(rh.config, ev.n)
           /\ ev.wait < 2 * ComputedWait(rh.config, ev.n)

---------------------------------------------------------------------------
(* A claim about the health cache entries, checked under SpecHealthCache *)

\* a check that met u failed
CheckFailed(u) ==
    u.kind \in {"timeout", "request_error"}
        \/ (u.kind = "status" /\ u.status_code # 200)

\* C34: a health refresh returns to its caller without raising and never
\* removes an entry: a check that fails is stored as an unhealthy entry with
\* an error text, a check whose task raised leaves the entry of its name as
\* it was, and so do the names that were not checked in the refresh; no
\* other step changes the cache.
C34_RefreshKeepsEntries ==
    [][LET c == ev'.caller
           ended == /\ ev'.type = "refreshed"
                    /\ health.pc[c] = "refreshing"
                    /\ health'.pc[c] # "refreshing"
       IN  /\ \A n \in Names :
                  health.cache[n] # NoEntry => health'.cache[n] # NoEntry
           /\ ~ended => health'.cache = health.cache
           /\ ended =>
                 /\ health'.pc[c] = "idle" /\ health'.holder = 0
                 /\ \A n \in Names :
                        LET u == ev'.results[n]
                            e == health'.cache[n]
                        IN  /\ CheckFailed(u)
                                => e.status = "unhealthy" /\ e.error # "none"
                            /\ u.kind = "raised" \/ n \notin health.tasks
                                => e = health.cache[n]
                            /\ n \in health.tasks /\ u.kind # "raised"
                                => e = check_provider_health(u)]_vars

C34_Witness ==
    /\ ev.type = "refreshed"
    /\ \E n, m \in Names :
           /\ ev.results[n].kind = "raised"
           /\ health.cache[n].status = "healthy"
           /\ ev.results[m] = NotChecked
           /\ health.cache[m] = Entry("unhealthy", "Timeout")

---------------------------------------------------------------------------
(* A claim about RequestRouter.update_weights, checked under SpecWeights *)

\* C40: update_weights with an invalid weight table (empty, with a negative
\* weight, or with a total that is not positive) raises and leaves the
\* router's previous weights unchanged.
C40_FailedUpdateKeepsWeights ==
    ev.type = "update" /\ ev.raised => router = ev.before

=============================================================================
